---- MODULE Spec2Model ----
(***************************************************************************)
(* Model of the habitat classifier of PokeExplore                          *)
(* (src/src/utils/habitatDetection.ts, detectHabitat).                     *)
(*                                                                         *)
(* One detectHabitat call is a sequence of steps separated by its awaits:  *)
(* the geocoding fetch, geocodeResponse.json(), the places fetch,          *)
(* placesResponse.json(), and the synchronous analysis that ends in a      *)
(* return.  The two upstream services are the environment: every fetch may *)
(* throw, answer with a non-OK status, answer with a body that does not    *)
(* parse, or answer with any JSON body of the pools below.  Text is kept   *)
(* as strings and matched by substring, as String.prototype.includes does. *)
(*                                                                         *)
(* Spec is the program.  SpecHistory is the program with a history         *)
(* variable, prev, that keeps the responses and the outcome of an earlier  *)
(* call, for the properties that compare two calls.                        *)
(***************************************************************************)
EXTENDS Integers, Sequences, FiniteSets, Bags, TLC

VARIABLES
    pc,               \* position of the current detectHabitat call
    geocodeResponse,  \* what the geocoding fetch produced (line 36)
    geocodeData,      \* await geocodeResponse.json() (line 45)
    placesResponse,   \* what the places fetch produced (line 50)
    placesData,       \* let placesData: any = null (line 48, 54)
    allTexts,         \* const allTexts: string[] (line 64)
    allTypes,         \* const allTypes: string[] (line 65)
    combinedText,     \* allTexts.join(' ') (line 89); NoText until computed
    promise,          \* the Promise<DetectedHabitat> of the current call
    prev,             \* history: responses and outcome of the last settled call
    requests,         \* fetch() calls the current call has issued (lines 36, 50)
    \* HuntScreen (src/src/screens/HuntScreen.tsx), its React state:
    userLocation,       \* useState(null), line 66: "null" or "set"
    pokemonMarkers,     \* useState([]): the ids of the markers on the map
    loading,            \* useState(true)
    locationPermission, \* useState(false)
    refreshing,         \* useState(false)
    osRequests,         \* native requests whose callback has not run yet
    flows,              \* the spawnPokemon activations in flight, oldest first
    alert,              \* title of the last Alert.alert of the screen
    lastRun,            \* history: how the last finished spawnPokemon ended
    \* The response cache (src/unnamed/part_010):
    storage,            \* AsyncStorage: key |-> stored string
    now,                \* Date.now(), in milliseconds
    writes,             \* setCachedData calls made so far
    lastRead,           \* history: the last getCachedData call at this instant
    lastWrite,          \* history: the last setCachedData call
    lastFetch,          \* history: the last call of a caching fetch function
    \* PokemonCatchScreen (src/src/screens/PokemonCatchScreen.tsx):
    screen,             \* the route on top of the navigator
    catching,           \* useState(false), line 42
    catchMethod,        \* useState(autoStartAR ? 'ar' : null), line 43
    attempts,           \* useState(0), line 44
    throwing,           \* useState(false), line 45
    thrown,             \* running throw animations: attempts in their closure
    waiting,            \* handleCatch calls in their 1500 ms wait: the method
    catchAlerts,        \* titles of the alerts shown, the one on top first
    caughtPokemon,      \* the user's documents of the caughtPokemon collection
    collection,         \* the caughtPokemon collection of all users, by document
    storeCalls,         \* addCaughtPokemon / removeCaughtPokemon calls in flight
    storeCount,         \* storage calls started so far
    \* Achievements (src/unnamed/part_006):
    achievements,       \* the user's documents of the achievements collection
    checks,             \* check calls made so far
    unlocking,          \* unlockAchievement calls between their query and their add
    \* The user profile (src/src/services/pokemonStorage.ts, from line 100):
    profile,            \* the document users/<userId> of one user, or NoProfile
    clock,              \* new Date() of the next profile call
    lastProfile,        \* history: the last profile call
    lastCheck           \* history: the last check call

huntVars == <<userLocation, pokemonMarkers, loading, locationPermission,
              refreshing, osRequests, flows, alert, lastRun>>

(* The variables of the other parts of the application: no step of          *)
(* detectHabitat reads or writes them.                                      *)
cacheVars == <<storage, now, writes, lastRead, lastWrite, lastFetch>>

storeVars == <<collection, storeCalls, storeCount>>

catchVars == <<screen, catching, catchMethod, attempts, throwing, thrown,
               waiting, catchAlerts, caughtPokemon, storeVars>>

profileVars == <<profile, clock, lastProfile>>

achievementVars == <<achievements, checks, lastCheck, unlocking, profileVars>>

appVars == <<huntVars, cacheVars, catchVars, achievementVars>>

detectVars == <<pc, geocodeResponse, geocodeData, placesResponse, placesData,
                allTexts, allTypes, combinedText, promise, prev, requests>>

vars == <<detectVars, appVars>>

---------------------------------------------------------------------------
(* The DetectedHabitat union type, lines 6-15.                              *)
DetectedHabitat ==
    {"urban", "grassland", "forest", "cave", "mountain", "rough-terrain",
     "waters-edge", "sea", "rare"}

---------------------------------------------------------------------------
(* JavaScript values as they come out of JSON.parse.  k is the kind, s the  *)
(* text of a string, a the elements of an array of strings.                 *)
JsUndefined == [k |-> "undefined", s |-> "", a |-> <<>>]
JsNumber == [k |-> "number", s |-> "", a |-> <<>>]
JsString(str) == [k |-> "string", s |-> str, a |-> <<>>]
JsArray(arr) == [k |-> "array", s |-> "", a |-> arr]

(* An entry of geocodeData.results / placesData.results.                    *)
GeocodeResult(address, types) ==
    [k |-> "object", formatted_address |-> address, types |-> types]
NullResult == [k |-> "null", formatted_address |-> JsUndefined, types |-> JsUndefined]
Place(name, types) == [k |-> "object", name |-> name, types |-> types]
NullPlace == [k |-> "null", name |-> JsUndefined, types |-> JsUndefined]

(* A parsed body: k is "object" or "null"; results is the kind of its       *)
(* results property ("array", "undefined", "null", "string", "number") and *)
(* items the entries when it is an array.                                   *)
Body(items) == [k |-> "object", results |-> "array", items |-> items]
BodyWithResults(kind) == [k |-> "object", results |-> kind, items |-> <<>>]
NullBody == [k |-> "null", results |-> "undefined", items |-> <<>>]

(* What a fetch produced: it threw, or it gave a response with an ok flag   *)
(* whose json() either throws (parses = FALSE) or returns body.             *)
NoResponse == [status |-> "none", parses |-> FALSE, body |-> NullBody]
FetchThrew == [status |-> "threw", parses |-> FALSE, body |-> NullBody]
NotOkResponse == [status |-> "notok", parses |-> FALSE, body |-> NullBody]
UnparsableResponse == [status |-> "ok", parses |-> FALSE, body |-> NullBody]
OkResponse(body) == [status |-> "ok", parses |-> TRUE, body |-> body]

NoText == "<none>"
NoData == [k |-> "unset", results |-> "undefined", items |-> <<>>]
Pending == [state |-> "pending", value |-> "none", line |-> 0]
NoCall == [geo |-> NoResponse, places |-> NoResponse, settled |-> Pending]

---------------------------------------------------------------------------
(* String.prototype.toLowerCase, used at lines 70 and 81: every upper-case  *)
(* letter is replaced by its lower-case letter, everything else is kept.    *)
toLowerChar(c) ==
  CASE c = "A" -> "a" []
       c = "B" -> "b" []
       c = "C" -> "c" []
       c = "D" -> "d" []
       c = "E" -> "e" []
       c = "F" -> "f" []
       c = "G" -> "g" []
       c = "H" -> "h" []
       c = "I" -> "i" []
       c = "J" -> "j" []
       c = "K" -> "k" []
       c = "L" -> "l" []
       c = "M" -> "m" []
       c = "N" -> "n" []
       c = "O" -> "o" []
       c = "P" -> "p" []
       c = "Q" -> "q" []
       c = "R" -> "r" []
       c = "S" -> "s" []
       c = "T" -> "t" []
       c = "U" -> "u" []
       c = "V" -> "v" []
       c = "W" -> "w" []
       c = "X" -> "x" []
       c = "Y" -> "y" []
       c = "Z" -> "z" []
       OTHER -> c

RECURSIVE toLowerCase(_)
toLowerCase(str) ==
    IF str = "" THEN ""
    ELSE toLowerChar(SubSeq(str, 1, 1)) \o toLowerCase(SubSeq(str, 2, Len(str)))

(* String.prototype.includes: keyword occurs in text as a substring.        *)
includes(text, keyword) ==
    \E i \in 1..(Len(text) - Len(keyword) + 1) :
        SubSeq(text, i, i + Len(keyword) - 1) = keyword

(* Array.prototype.some(keyword => text.includes(keyword)).                 *)
someIncluded(keywords, text) ==
    \E i \in 1..Len(keywords) : includes(text, keywords[i])

(* Array.prototype.includes on allTypes.                                    *)
typesInclude(types, tag) == \E i \in 1..Len(types) : types[i] = tag

(* Array.prototype.join(' '), line 89.                                      *)
RECURSIVE join(_)
join(texts) ==
    IF texts = <<>> THEN ""
    ELSE IF Len(texts) = 1 THEN texts[1]
    ELSE texts[1] \o " " \o join(Tail(texts))

(* x?.toLowerCase() || '' for the name / formatted_address property x       *)
(* (lines 70, 81): a string is lower-cased, undefined gives ''.  A number   *)
(* has no toLowerCase: the call throws a TypeError (textThrows).            *)
textThrows(x) == x.k = "number"
textOf(x) == IF x.k = "string" THEN toLowerCase(x.s) ELSE ""

(* allTypes.push(...(x || [])) for the types property x (lines 71-73,       *)
(* 82-84): an array is spread element by element, undefined gives [], a     *)
(* string is spread character by character, and a number is not iterable:   *)
(* the spread throws a TypeError (spreadThrows).                            *)
spreadThrows(x) == x.k = "number"
spreadOf(x) ==
    IF x.k = "array" THEN x.a
    ELSE IF x.k = "string" THEN [i \in 1..Len(x.s) |-> SubSeq(x.s, i, i)]
    ELSE <<>>

(* results.length as lines 68, 79, 116 and 148 use it: the length of an     *)
(* array or string; undefined otherwise, which compares like 0 in           *)
(* `length > 0` and in `!length`.  A null body has no results (placesData   *)
(* is read through ?. everywhere).                                          *)
resultsLength(data) ==
    IF data.k # "object" THEN 0
    ELSE IF data.results = "array" THEN Len(data.items)
    ELSE IF data.results = "string" THEN 1
    ELSE 0

(* placesData.results.forEach(...), lines 68-76.  Returns the collections   *)
(* and whether a TypeError was thrown on the way.                           *)
RECURSIVE forEachPlace(_, _, _)
forEachPlace(items, texts, types) ==
    IF items = <<>> THEN [threw |-> FALSE, texts |-> texts, types |-> types]
    ELSE LET place == Head(items) IN
         IF place.k = "null" \/ textThrows(place.name)
         THEN [threw |-> TRUE, texts |-> texts, types |-> types]
         ELSE IF spreadThrows(place.types)
         THEN [threw |-> TRUE, texts |-> Append(texts, textOf(place.name)),
               types |-> types]
         ELSE forEachPlace(Tail(items), Append(texts, textOf(place.name)),
                           types \o spreadOf(place.types))

(* geocodeData.results.forEach(...), lines 79-87.                           *)
RECURSIVE forEachGeocodeResult(_, _, _)
forEachGeocodeResult(items, texts, types) ==
    IF items = <<>> THEN [threw |-> FALSE, texts |-> texts, types |-> types]
    ELSE LET r == Head(items) IN
         IF r.k = "null" \/ textThrows(r.formatted_address)
         THEN [threw |-> TRUE, texts |-> texts, types |-> types]
         ELSE IF spreadThrows(r.types)
         THEN [threw |-> TRUE,
               texts |-> Append(texts, textOf(r.formatted_address)),
               types |-> types]
         ELSE forEachGeocodeResult(Tail(items),
                                   Append(texts, textOf(r.formatted_address)),
                                   types \o spreadOf(r.types))

(* Lines 64-87: allTexts and allTypes start empty; the places results are   *)
(* added first, then the geocoding results.                                 *)
collect(gData, pData) ==
    LET fromPlaces ==
            IF pData.k = "object" /\ pData.results = "string"
            THEN [threw |-> TRUE, texts |-> <<>>,
                  types |-> <<>>]
            ELSE IF pData.k = "object" /\ pData.results = "array"
                    /\ Len(pData.items) > 0
            THEN forEachPlace(pData.items, <<>>, <<>>)
            ELSE [threw |-> FALSE, texts |-> <<>>,
                  types |-> <<>>]
    IN  IF fromPlaces.threw THEN fromPlaces
        ELSE IF gData.k = "null" \/ (gData.results = "string")
        THEN [threw |-> TRUE, texts |-> fromPlaces.texts,
              types |-> fromPlaces.types]
        ELSE IF gData.results = "array" /\ Len(gData.items) > 0
        THEN forEachGeocodeResult(gData.items, fromPlaces.texts,
                                  fromPlaces.types)
        ELSE fromPlaces

---------------------------------------------------------------------------
(* The keyword lists of lines 96, 110, 128 and 145.                         *)
waterKeywords ==
    <<"beach", "coast", "coastal", "shore", "seashore", "harbor", "harbour",
      "port", "lake", "river", "ocean", "sea", "bay", "waterfront", "marina",
      "pier", "wharf", "waterfall", "falls", "stream", "creek">>
mountainKeywords ==
    <<"mountain", "hill", "peak", "ridge", "summit", "mount", "volcano",
      "cliff", "canyon", "valley", "highland", "range", "elevation",
      "altitude">>
forestKeywords ==
    <<"park", "forest", "wood", "woods", "grove", "nature", "reserve",
      "wildlife", "national park", "state park", "trail", "hiking",
      "wilderness", "conservation">>
urbanKeywords ==
    <<"city", "town", "urban", "downtown", "metropolitan", "municipality",
      "street", "avenue", "boulevard">>

(* Lines 97-99.                                                             *)
hasWaterKeyword(text) == someIncluded(waterKeywords, text)
hasWaterType(text, types) ==
    /\ typesInclude(types, "natural_feature")
    /\ \/ includes(text, "beach") \/ includes(text, "coast")
       \/ includes(text, "water") \/ includes(text, "lake")
       \/ includes(text, "river")

(* Lines 111-116.                                                           *)
hasMountainKeyword(text) == someIncluded(mountainKeywords, text)
hasMountainType(text, types) ==
    /\ typesInclude(types, "natural_feature")
    /\ \/ includes(text, "mountain") \/ includes(text, "hill")
       \/ includes(text, "peak") \/ includes(text, "mount")
hasNaturalFeature_never(types, pData) == FALSE
hasNaturalFeature(types, pData) ==
    typesInclude(types, "natural_feature") /\ resultsLength(pData) > 0

(* Lines 129-130.                                                           *)
hasForestKeyword(text) == someIncluded(forestKeywords, text)
hasParkType(text, types) ==
    \/ typesInclude(types, "park")
    \/ typesInclude(types, "natural_feature") /\ includes(text, "park")

(* Lines 146-148.                                                           *)
hasUrbanKeyword(text) == someIncluded(urbanKeywords, text)
isAdministrativeArea(types) ==
    \/ typesInclude(types, "locality")
    \/ typesInclude(types, "administrative_area_level_1")
hasNoNaturalFeatures_tagsOnly(types, pData) ==
    /\ ~typesInclude(types, "natural_feature")
    /\ ~typesInclude(types, "park")
hasNoNaturalFeatures(types, pData) ==
    /\ ~typesInclude(types, "natural_feature")
    /\ ~typesInclude(types, "park")
    /\ ~(resultsLength(pData) > 0)

(* The return statements of detectHabitat: the value returned and the line  *)
(* of the statement.                                                        *)
Return(habitat, line) == [state |-> "fulfilled", value |-> habitat, line |-> line]

(* The rules of lines 93-168 in their order; the first that matches         *)
(* returns.  The statement of line 168 follows the unconditional return of  *)
(* line 165.                                                                *)
classify_mountainFirst(text, types, pData) ==
    IF \/ hasMountainKeyword(text) \/ hasMountainType(text, types)
       \/ (hasNaturalFeature(types, pData) /\ ~hasWaterKeyword(text))
    THEN Return("mountain", 124)
    ELSE IF hasWaterKeyword(text) \/ hasWaterType(text, types)
    THEN Return("waters-edge", 106)
    ELSE IF hasForestKeyword(text) \/ hasParkType(text, types)
    THEN Return("forest", 137)
    ELSE IF /\ hasUrbanKeyword(text) /\ isAdministrativeArea(types)
            /\ hasNoNaturalFeatures(types, pData)
    THEN Return("urban", 156)
    ELSE Return("grassland", 165)
classify_forestFirst(text, types, pData) ==
    IF hasWaterKeyword(text) \/ hasWaterType(text, types)
    THEN Return("waters-edge", 106)
    ELSE IF hasForestKeyword(text) \/ hasParkType(text, types)
    THEN Return("forest", 137)
    ELSE IF \/ hasMountainKeyword(text) \/ hasMountainType(text, types)
            \/ (hasNaturalFeature(types, pData) /\ ~hasWaterKeyword(text))
    THEN Return("mountain", 124)
    ELSE IF /\ hasUrbanKeyword(text) /\ isAdministrativeArea(types)
            /\ hasNoNaturalFeatures(types, pData)
    THEN Return("urban", 156)
    ELSE Return("grassland", 165)
classify_caveFallback(text, types, pData) ==
    IF hasWaterKeyword(text) \/ hasWaterType(text, types)
    THEN Return("waters-edge", 106)
    ELSE IF hasMountainKeyword(text) \/ hasMountainType(text, types)
    THEN Return("mountain", 124)
    ELSE IF hasNaturalFeature(types, pData) /\ ~hasWaterKeyword(text)
    THEN Return("cave", 124)
    ELSE IF hasForestKeyword(text) \/ hasParkType(text, types)
    THEN Return("forest", 137)
    ELSE IF /\ hasUrbanKeyword(text) /\ isAdministrativeArea(types)
            /\ hasNoNaturalFeatures(types, pData)
    THEN Return("urban", 156)
    ELSE Return("grassland", 165)
classify(text, types, pData) ==
    IF hasWaterKeyword(text) \/ hasWaterType(text, types)
    THEN Return("waters-edge", 106)
    ELSE IF \/ hasMountainKeyword(text) \/ hasMountainType(text, types)
            \/ (hasNaturalFeature(types, pData) /\ ~hasWaterKeyword(text))
    THEN Return("mountain", 124)
    ELSE IF hasForestKeyword(text) \/ hasParkType(text, types)
    THEN Return("forest", 137)
    ELSE IF /\ hasUrbanKeyword(text) /\ isAdministrativeArea(types)
            /\ hasNoNaturalFeatures(types, pData)
    THEN Return("urban", 156)
    ELSE Return("grassland", 165)

(* The catch clause of lines 169-173: whatever was thrown inside the try is *)
(* logged and the call returns grassland.                                   *)
catchError_rethrow == [state |-> "rejected", value |-> "none", line |-> 170]
catchError == Return("grassland", 172)

(* The habitats of the return statements of detectHabitat, lines 42-172.    *)
ProducedHabitats == {"urban", "grassland", "forest", "mountain", "waters-edge"}

---------------------------------------------------------------------------
(* The environment: what the two upstream services may answer.  The        *)
(* entries are the documented examples (HABITAT_DETECTION_EXPLAINED.md,    *)
(* HABITAT_SPAWNING.md) and entries a JSON body may hold that the code      *)
(* does not expect.                                                         *)
Tags(arr) == JsArray(arr)

MalindangAddress ==
    "Mount Malindang Range Natural Park, Misamis Occidental, Philippines"

GeocodeEntries ==
    { GeocodeResult(JsString(MalindangAddress), Tags(<<"natural_feature", "park">>)),
      GeocodeResult(JsString("123 Main Street, Springfield"), Tags(<<"locality">>)),
      GeocodeResult(JsString("National Forest Park Trail"), Tags(<<"route">>)),
      GeocodeResult(JsString("Mountain View Beach Road"), Tags(<<"route">>)),
      GeocodeResult(JsString("Misamis Occidental, Philippines"),
                    Tags(<<"administrative_area_level_2">>)),
      GeocodeResult(JsString("45 Rizal Avenue"), Tags(<<"street_address">>)),
      GeocodeResult(JsString("Quezon City"),
                    Tags(<<"administrative_area_level_1", "political">>)),
      GeocodeResult(JsString("Quezon City"),
                    Tags(<<"locality", "natural_feature">>)),
      GeocodeResult(JsString("Plaza Rizal"), Tags(<<"natural_feature">>)),
      GeocodeResult(JsString("Plaza Rizal"), Tags(<<"park">>)),
      GeocodeResult(JsString("Davao Airport Terminal"), Tags(<<"airport">>)),
      GeocodeResult(JsString("Lakeview Avenue, Quezon City"), Tags(<<"locality">>)),
      GeocodeResult(JsUndefined, JsUndefined),
      GeocodeResult(JsString("123 Main Street, Springfield"), JsString("locality")),
      GeocodeResult(JsNumber, Tags(<<"locality">>)),
      GeocodeResult(JsString("Quezon City"), JsNumber),
      NullResult }

GeocodeBodies ==
    { Body(<<e>>) : e \in GeocodeEntries }
    \cup
    { Body(<<>>),
      Body(<<GeocodeResult(JsString("45 Rizal Avenue"), Tags(<<"street_address">>)),
             GeocodeResult(JsString("Misamis Occidental, Philippines"),
                           Tags(<<"locality", "political">>))>>),
      Body(<<GeocodeResult(JsString("123 Main Street, Springfield"), Tags(<<"locality">>)),
             NullResult>>),
      NullBody,
      BodyWithResults("undefined"),
      BodyWithResults("string"),
      BodyWithResults("number") }

(* A non-OK response still carries a body that json() could parse.          *)
NotOkResponseWith(body) == [status |-> "notok", parses |-> TRUE, body |-> body]

GeocodeResponses ==
    { OkResponse(b) : b \in GeocodeBodies }
    \cup
    { UnparsableResponse, NotOkResponse,
      NotOkResponseWith(Body(<<GeocodeResult(JsString("Mountain View Beach Road"),
                                             Tags(<<"route">>))>>)) }

PlaceEntries ==
    { Place(JsString("Mount Malindang"), Tags(<<"natural_feature">>)),
      Place(JsString("Echo Point"), Tags(<<"natural_feature">>)),
      Place(JsString("Rizal Park"), Tags(<<"park">>)),
      Place(JsString("Sunset Beach"), Tags(<<"natural_feature">>)),
      Place(JsString("Central Plaza"), Tags(<<"point_of_interest">>)),
      Place(JsString("Clearwater Spring"), Tags(<<"natural_feature">>)),
      Place(JsUndefined, JsUndefined),
      Place(JsNumber, Tags(<<"park">>)),
      Place(JsString("Sunset Beach"), JsNumber),
      NullPlace }

PlacesBodies ==
    { Body(<<e>>) : e \in PlaceEntries }
    \cup
    { Body(<<>>),
      Body(<<Place(JsString("Central Plaza"), Tags(<<"point_of_interest">>)),
             Place(JsString("Echo Point"), Tags(<<"natural_feature">>))>>),
      NullBody,
      BodyWithResults("undefined"),
      BodyWithResults("string") }

PlacesResponses ==
    { OkResponse(b) : b \in PlacesBodies }
    \cup
    { UnparsableResponse, NotOkResponse,
      NotOkResponseWith(Body(<<Place(JsString("Sunset Beach"),
                                     Tags(<<"natural_feature">>))>>)) }

---------------------------------------------------------------------------
(* HuntScreen after its first render, lines 62-71 and 125-127: the mount    *)
(* effect has asked for the location permission.                            *)
NoRun ==
    [result |-> "none", pool |-> <<>>, lookupFailed |-> FALSE,
     apiFailed |-> FALSE]
InitHunt ==
    /\ userLocation = "null"
    /\ pokemonMarkers = <<>>
    /\ loading = TRUE
    /\ locationPermission = FALSE
    /\ refreshing = FALSE
    /\ osRequests = [permission |-> 1, position |-> 0]
    /\ flows = <<>>
    /\ alert = "none"
    /\ lastRun = NoRun

(* The response cache of a fresh installation, src/unnamed/part_010: nothing *)
(* is stored and no call has been made.                                     *)
CACHE_PREFIX == "pokemon_cache_"
CACHE_EXPIRY_PREFIX == "pokemon_cache_expiry_"
CACHE_DURATION == 24 * 60 * 60 * 1000
MAX_ITEM_SIZE == 500 * 1024

JsNull == [k |-> "null", s |-> "", a |-> <<>>]

NoEviction == [ran |-> FALSE, before |-> <<>>, removed |-> {},
               faulty |-> FALSE, retried |-> FALSE]
NoRead == [done |-> FALSE, resource |-> "", identifier |-> JsUndefined,
           result |-> JsNull, failed |-> FALSE]
NoFetch == [done |-> FALSE, n |-> 0]
NoWrite == [done |-> FALSE, resource |-> "", identifier |-> JsUndefined,
            data |-> JsNull, at |-> 0, wrote |-> "nothing", calls |-> 0,
            threw |-> FALSE, eviction |-> NoEviction]

InitCache ==
    /\ storage = [x \in {} |-> ""]
    /\ now = CACHE_DURATION
    /\ writes = 0
    /\ lastRead = NoRead
    /\ lastWrite = NoWrite
    /\ lastFetch = NoFetch

(* The catch screen after its first render without autoStartAR, lines       *)
(* 42-46, and a user without achievements.                                  *)
InitCatch ==
    /\ screen = "PokemonCatch"
    /\ catching = FALSE
    /\ catchMethod = "null"
    /\ attempts = 0
    /\ throwing = FALSE
    /\ thrown = <<>>
    /\ waiting = <<>>
    /\ catchAlerts = <<>>
    /\ caughtPokemon = <<>>
    /\ collection = {}
    /\ storeCalls = {}
    /\ storeCount = 0

InitAchievements ==
    /\ achievements = EmptyBag
    /\ unlocking = EmptyBag
    /\ checks = 0
    /\ lastCheck =
        [done |-> FALSE, achievementType |-> "", pokemonType |-> "",
         count |-> 0, before |-> EmptyBag, unlocked |-> <<>>,
         threw |-> FALSE,
         fault |-> [at |-> 0, check |-> "ok", recheck |-> "ok",
                    add |-> "ok"]]

InitDetect ==
    /\ pc = "idle"
    /\ geocodeResponse = NoResponse
    /\ geocodeData = NoData
    /\ placesResponse = NoResponse
    /\ placesData = NoData
    /\ allTexts = <<>>
    /\ allTypes = <<>>
    /\ combinedText = NoText
    /\ promise = Pending
    /\ prev = NoCall
    /\ requests = [geocode |-> 0, places |-> 0]

NoProfile == [exists |-> FALSE]
NoProfileCall ==
    [done |-> FALSE, fn |-> "", email |-> "", displayName |-> JsUndefined,
     before |-> NoProfile, returned |-> JsNull, threw |-> FALSE,
     chosen |-> ""]

InitProfile ==
    /\ profile = NoProfile
    /\ clock = 1
    /\ lastProfile = NoProfileCall

InitApp ==
    InitHunt /\ InitCache /\ InitCatch /\ InitAchievements /\ InitProfile

Init == InitDetect /\ InitApp

(* A new activation of detectHabitat: its locals do not exist yet and its   *)
(* promise is pending.                                                      *)
NewActivation ==
    /\ pc' = "geocodeFetch"
    /\ geocodeResponse' = NoResponse
    /\ geocodeData' = NoData
    /\ placesResponse' = NoResponse
    /\ placesData' = NoData
    /\ allTexts' = <<>>
    /\ allTypes' = <<>>
    /\ combinedText' = NoText
    /\ promise' = Pending
    /\ requests' = [geocode |-> 1, places |-> 0]

(* A caller invokes detectHabitat(latitude, longitude), line 28.            *)
CallDetectHabitat ==
    /\ pc \in {"idle", "returned"}
    /\ NewActivation
    /\ UNCHANGED <<prev, appVars>>

(* The history of the call that has just settled.                           *)
Settled ==
    [geo |-> geocodeResponse, places |-> placesResponse, settled |-> promise]

(* The same invocation, with the history variable prev: it holds the call   *)
(* that has just settled, or keeps an earlier one.                          *)
CallDetectHabitatRecorded ==
    /\ pc \in {"idle", "returned"}
    /\ NewActivation
    /\ prev' \in (IF pc = "returned" THEN {Settled, prev} ELSE {prev})
    /\ UNCHANGED appVars

(* await fetch(geocode URL), line 36, rejects: the outer catch returns.     *)
GeocodeFetchThrows ==
    /\ pc = "geocodeFetch"
    /\ geocodeResponse' = FetchThrew
    /\ promise' = catchError
    /\ pc' = "returned"
    /\ UNCHANGED <<geocodeData, placesResponse, placesData, allTexts,
                   allTypes, combinedText, prev, requests, appVars>>

(* The fetch resolves with !geocodeResponse.ok: lines 40-43 return.         *)
GeocodeFetchNotOk_continues ==
    /\ pc = "geocodeFetch"
    /\ \E resp \in GeocodeResponses :
        /\ resp.status = "notok"
        /\ geocodeResponse' = resp
    /\ pc' = "geocodeJson"
    /\ UNCHANGED <<geocodeData, placesResponse, placesData, allTexts,
                   allTypes, combinedText, promise, prev, requests, appVars>>
GeocodeFetchNotOk ==
    /\ pc = "geocodeFetch"
    /\ \E resp \in GeocodeResponses :
        /\ resp.status = "notok"
        /\ geocodeResponse' = resp
    /\ promise' = Return("grassland", 42)
    /\ pc' = "returned"
    /\ UNCHANGED <<geocodeData, placesResponse, placesData, allTexts,
                   allTypes, combinedText, prev, requests, appVars>>

(* The fetch resolves with geocodeResponse.ok: on to line 45.               *)
GeocodeFetchOk ==
    /\ pc = "geocodeFetch"
    /\ \E resp \in GeocodeResponses :
        /\ resp.status = "ok"
        /\ geocodeResponse' = resp
    /\ pc' = "geocodeJson"
    /\ UNCHANGED <<geocodeData, placesResponse, placesData, allTexts,
                   allTypes, combinedText, promise, prev, requests, appVars>>

(* await geocodeResponse.json(), line 45, rejects: the outer catch returns. *)
GeocodeJsonThrows ==
    /\ pc = "geocodeJson"
    /\ ~geocodeResponse.parses
    /\ promise' = catchError
    /\ pc' = "returned"
    /\ UNCHANGED <<geocodeResponse, geocodeData, placesResponse, placesData,
                   allTexts, allTypes, combinedText, prev, requests, appVars>>

(* json() resolves: geocodeData is the body; placesData = null, line 48.    *)
GeocodeJsonParsed_stalePlaces ==
    /\ pc = "geocodeJson"
    /\ geocodeResponse.parses
    /\ geocodeData' = geocodeResponse.body
    /\ placesData' = IF prev.places.status = "ok" /\ prev.places.parses
                      THEN prev.places.body ELSE NullBody
    /\ requests' = [requests EXCEPT !.places = @ + 1]
    /\ pc' = "placesFetch"
    /\ UNCHANGED <<geocodeResponse, placesResponse, allTexts, allTypes,
                   combinedText, promise, prev, appVars>>
GeocodeJsonParsed ==
    /\ pc = "geocodeJson"
    /\ geocodeResponse.parses
    /\ geocodeData' = geocodeResponse.body
    /\ placesData' = NullBody
    /\ requests' = [requests EXCEPT !.places = @ + 1]
    /\ pc' = "placesFetch"
    /\ UNCHANGED <<geocodeResponse, placesResponse, allTexts, allTypes,
                   combinedText, promise, prev, appVars>>

(* await fetch(places URL), line 50, rejects: the inner catch of line 56    *)
(* logs a warning and the call continues with placesData = null.            *)
PlacesFetchThrows_propagates ==
    /\ pc = "placesFetch"
    /\ placesResponse' = FetchThrew
    /\ promise' = catchError
    /\ pc' = "returned"
    /\ UNCHANGED <<geocodeResponse, geocodeData, placesData, allTexts,
                   allTypes, combinedText, prev, requests, appVars>>
PlacesFetchThrows_retries ==
    /\ pc = "placesFetch"
    /\ placesResponse' = FetchThrew
    /\ IF requests.places < 2
       THEN /\ requests' = [requests EXCEPT !.places = @ + 1]
            /\ pc' = "placesFetch"
       ELSE /\ requests' = requests
            /\ pc' = "analyze"
    /\ UNCHANGED <<geocodeResponse, geocodeData, placesData, allTexts,
                   allTypes, combinedText, promise, prev, appVars>>
PlacesFetchThrows ==
    /\ pc = "placesFetch"
    /\ placesResponse' = FetchThrew
    /\ pc' = "analyze"
    /\ UNCHANGED <<geocodeResponse, geocodeData, placesData, allTexts,
                   allTypes, combinedText, promise, prev, requests, appVars>>

(* The fetch resolves with !placesResponse.ok: line 53 skips json().        *)
PlacesFetchNotOk ==
    /\ pc = "placesFetch"
    /\ \E resp \in PlacesResponses :
        /\ resp.status = "notok"
        /\ placesResponse' = resp
    /\ pc' = "analyze"
    /\ UNCHANGED <<geocodeResponse, geocodeData, placesData, allTexts,
                   allTypes, combinedText, promise, prev, requests, appVars>>

(* The fetch resolves with placesResponse.ok: on to line 54.                *)
PlacesFetchOk ==
    /\ pc = "placesFetch"
    /\ \E resp \in PlacesResponses :
        /\ resp.status = "ok"
        /\ placesResponse' = resp
    /\ pc' = "placesJson"
    /\ UNCHANGED <<geocodeResponse, geocodeData, placesData, allTexts,
                   allTypes, combinedText, promise, prev, requests, appVars>>

(* await placesResponse.json(), line 54, rejects inside the inner try.      *)
PlacesJsonThrows ==
    /\ pc = "placesJson"
    /\ ~placesResponse.parses
    /\ pc' = "analyze"
    /\ UNCHANGED <<geocodeResponse, geocodeData, placesResponse, placesData,
                   allTexts, allTypes, combinedText, promise, prev, requests, appVars>>

(* json() resolves: placesData is the body.                                 *)
PlacesJsonParsed ==
    /\ pc = "placesJson"
    /\ placesResponse.parses
    /\ placesData' = placesResponse.body
    /\ pc' = "analyze"
    /\ UNCHANGED <<geocodeResponse, geocodeData, placesResponse, allTexts,
                   allTypes, combinedText, promise, prev, requests, appVars>>

(* Lines 60-173, which hold no await: collect the texts and the types,      *)
(* join the texts, apply the rules and return; a TypeError thrown while     *)
(* collecting goes to the outer catch.                                      *)
AnalyzeResults ==
    /\ pc = "analyze"
    /\ \E c \in {collect(geocodeData, placesData)} :
       \E text \in {join(c.texts)} :
        /\ allTexts' = c.texts
        /\ allTypes' = c.types
        /\ combinedText' = IF c.threw THEN NoText ELSE text
        /\ promise' = IF c.threw THEN catchError
                      ELSE classify(text, c.types, placesData)
    /\ pc' = "returned"
    /\ UNCHANGED <<geocodeResponse, geocodeData, placesResponse, placesData,
                   prev, requests, appVars>>

Next ==
    \/ CallDetectHabitat
    \/ GeocodeFetchThrows
    \/ GeocodeFetchNotOk
    \/ GeocodeFetchOk
    \/ GeocodeJsonThrows
    \/ GeocodeJsonParsed
    \/ PlacesFetchThrows
    \/ PlacesFetchNotOk
    \/ PlacesFetchOk
    \/ PlacesJsonThrows
    \/ PlacesJsonParsed
    \/ AnalyzeResults

Spec == Init /\ [][Next]_vars

(* The same program with the history of the previous call kept.             *)
NextRecorded ==
    \/ CallDetectHabitatRecorded
    \/ GeocodeFetchThrows
    \/ GeocodeFetchNotOk
    \/ GeocodeFetchOk
    \/ GeocodeJsonThrows
    \/ GeocodeJsonParsed
    \/ PlacesFetchThrows
    \/ PlacesFetchNotOk
    \/ PlacesFetchOk
    \/ PlacesJsonThrows
    \/ PlacesJsonParsed
    \/ AnalyzeResults

SpecHistory == Init /\ [][NextRecorded]_vars

---------------------------------------------------------------------------
(* HuntScreen (src/src/screens/HuntScreen.tsx) and the pool lookup of       *)
(* src/src/services/pokeapi.ts.                                             *)
(*                                                                          *)
(* A creature is its id.  spawnPokemon is a sequence of steps separated by  *)
(* its awaits: detectHabitat, getPokemonByHabitat, the getPokemon calls of  *)
(* the random fill, those of the fallback, and preloadImages.  Several      *)
(* activations can be in flight; flows holds one record for each.  The      *)
(* creature-data API is the environment: every lookup may fail.             *)

MAX_POKEMON == 10

(* Bounds of the model. *)
RandomModulus == 12
MaxSeed == 1
MaxFlows == 2

(* Math.random(): the i-th value of the generator stream that starts at     *)
(* seed, as a numerator over RandomModulus; a value can come twice.         *)
mathRandom(seed, i) == ((seed + i) \div 2) % RandomModulus

(* Math.floor(Math.random() * 1025) + 1, lines 238 and 251.                 *)
randomId_zeroBased(seed, i) == (mathRandom(seed, i) * 1025) \div RandomModulus
randomId(seed, i) == ((mathRandom(seed, i) * 1025) \div RandomModulus) + 1

(* while (randomIds.size < needed) randomIds.add(...), lines 236-239 and    *)
(* 249-252, then Array.from(randomIds): a Set keeps insertion order and     *)
(* ignores a value it already holds.                                        *)
RECURSIVE randomIds(_, _, _, _)
randomIds(ids, needed, seed, i) ==
    IF Len(ids) >= needed THEN ids
    ELSE randomIds(IF \E j \in 1..Len(ids) : ids[j] = randomId(seed, i)
                   THEN ids ELSE Append(ids, randomId(seed, i)),
                   needed, seed, i + 1)

(* data.pokemon_species of a habitat, pokeapi.ts line 174: each species is  *)
(* the id of the creature of its first variety, 0 when it has none (line    *)
(* 190 gives undefined and line 194 returns null).                          *)
pokemon_species(habitatName) ==
    CASE habitatName = "urban" -> <<1, 2, 3, 4, 5, 6, 7, 8, 9, 10, 11, 12>>
      [] habitatName = "grassland" -> <<10, 11, 12, 13, 14, 15, 16, 17, 18, 19>>
      [] habitatName = "forest" -> <<1, 2, 3, 0, 5, 6, 7, 8, 9>>
      [] habitatName = "mountain" -> <<16, 17, 18, 19, 20, 21, 22>>
      [] OTHER -> <<>>

(* speciesList.sort(() => Math.random() - 0.5), line 176: a permutation;    *)
(* the model takes the rotations.                                           *)
shuffle(list, k) ==
    [i \in 1..Len(list) |-> list[((i + k - 1) % Len(list)) + 1]]

(* getPokemonByHabitat when every fetch succeeds, lines 174-198.            *)
getPokemonByHabitat(speciesList, k) ==
    LET shuffled == shuffle(speciesList, k)
        randomSpecies ==
            SubSeq(shuffled, 1, IF 10 < Len(shuffled) THEN 10 ELSE Len(shuffled))
        notNull(p) == p # 0
    IN  SelectSeq(randomSpecies, notNull)

(* A new spawnPokemon activation, lines 215-339, at its first await: its    *)
(* later steps do not read isRefresh (the notification of line 326 is not   *)
(* modelled).  pool is the part of pokemonList that came from the habitat.  *)
Flow ==
    [pc |-> "detectHabitat", habitat |-> "none", pool |-> <<>>,
     random |-> <<>>, pokemonList |-> <<>>, lookupFailed |-> FALSE,
     apiFailed |-> FALSE]

remove(seq, i) == SubSeq(seq, 1, i - 1) \o SubSeq(seq, i + 1, Len(seq))

(* PermissionsAndroid.request resolves GRANTED, lines 171-172; the effect   *)
(* of lines 130-134 then runs getUserLocation, lines 186-187, unless        *)
(* locationPermission was true already.                                     *)
PermissionGranted ==
    /\ osRequests.permission > 0
    /\ locationPermission' = TRUE
    /\ IF locationPermission
       THEN /\ osRequests' = [osRequests EXCEPT !.permission = @ - 1]
            /\ loading' = loading
       ELSE /\ osRequests' = [permission |-> osRequests.permission - 1,
                              position |-> osRequests.position + 1]
            /\ loading' = TRUE
    /\ UNCHANGED <<userLocation, pokemonMarkers, refreshing, flows, alert,
                   lastRun, detectVars,
                   cacheVars, catchVars, achievementVars>>

(* The request resolves otherwise, lines 173-175.                           *)
PermissionDenied ==
    /\ osRequests.permission > 0
    /\ osRequests' = [osRequests EXCEPT !.permission = @ - 1]
    /\ alert' = "Permission Denied"
    /\ UNCHANGED <<userLocation, pokemonMarkers, loading, locationPermission,
                   refreshing, flows, lastRun, detectVars,
                   cacheVars, catchVars, achievementVars>>

(* The Grant Permission button, lines 527-533, is rendered when there is    *)
(* no location and the screen is not loading.                               *)
PressGrantPermission ==
    /\ userLocation = "null" /\ ~loading
    /\ osRequests.permission = 0
    /\ osRequests' = [osRequests EXCEPT !.permission = 1]
    /\ UNCHANGED <<userLocation, pokemonMarkers, loading, locationPermission,
                   refreshing, flows, alert, lastRun, detectVars,
                   cacheVars, catchVars, achievementVars>>

(* The success callback of getCurrentPosition, lines 188-205:               *)
(* setUserLocation, spawnPokemon(location) up to its first await (line 220  *)
(* sets loading), not awaited, and then setLoading(false) of line 204.      *)
LocationObtained ==
    /\ osRequests.position > 0
    /\ Len(flows) < MaxFlows
    /\ osRequests' = [osRequests EXCEPT !.position = @ - 1]
    /\ userLocation' = "set"
    /\ flows' = Append(flows, Flow)
    /\ loading' = FALSE
    /\ UNCHANGED <<pokemonMarkers, locationPermission, refreshing, alert,
                   lastRun, detectVars,
                   cacheVars, catchVars, achievementVars>>

(* The error callback, lines 206-210.                                       *)
LocationError ==
    /\ osRequests.position > 0
    /\ osRequests' = [osRequests EXCEPT !.position = @ - 1]
    /\ alert' = "Location Error"
    /\ loading' = FALSE
    /\ UNCHANGED <<userLocation, pokemonMarkers, locationPermission,
                   refreshing, flows, lastRun, detectVars,
                   cacheVars, catchVars, achievementVars>>

(* The Refresh button, line 425, disabled={loading || refreshing}, runs     *)
(* handleRefresh, lines 351-357: spawnPokemon(userLocation, true) up to its *)
(* first await (line 218), or getUserLocation (lines 186-187).              *)
HandleRefresh ==
    /\ ~(loading \/ refreshing)
    /\ IF userLocation # "null"
       THEN /\ Len(flows) < MaxFlows
            /\ flows' = Append(flows, Flow)
            /\ refreshing' = TRUE
            /\ UNCHANGED <<loading, osRequests>>
       ELSE /\ loading' = TRUE
            /\ osRequests' = [osRequests EXCEPT !.position = @ + 1]
            /\ UNCHANGED <<flows, refreshing>>
    /\ UNCHANGED <<userLocation, pokemonMarkers, locationPermission, alert,
                   lastRun, detectVars,
                   cacheVars, catchVars, achievementVars>>

(* await detectHabitat(...) of line 224 resolves.                           *)
HabitatDetected ==
  \E i \in 1..Len(flows) :
    /\ flows[i].pc = "detectHabitat"
    /\ \E habitat \in ProducedHabitats :
         flows' = [flows EXCEPT ![i].habitat = habitat,
                                ![i].pc = "getPokemonByHabitat"]
    /\ UNCHANGED <<userLocation, pokemonMarkers, loading, locationPermission,
                   refreshing, osRequests, alert, lastRun, detectVars,
                   cacheVars, catchVars, achievementVars>>

(* await getPokemonByHabitat(habitat) of line 230 rejects (pokeapi.ts lines *)
(* 168-170, 185-187, 98-100 and 199-202): the inner catch of lines 247-256  *)
(* draws MAX_POKEMON random ids and fetches them.                           *)
HabitatLookupFails ==
  \E i \in 1..Len(flows) :
    /\ flows[i].pc = "getPokemonByHabitat"
    /\ \E seed \in 0..MaxSeed :
         flows' = [flows EXCEPT
                     ![i].habitat = "none",
                     ![i].random = randomIds(<<>>, MAX_POKEMON, seed, 0),
                     ![i].lookupFailed = TRUE,
                     ![i].apiFailed = TRUE,
                     ![i].pc = "fallback"]
    /\ UNCHANGED <<userLocation, pokemonMarkers, loading, locationPermission,
                   refreshing, osRequests, alert, lastRun, detectVars,
                   cacheVars, catchVars, achievementVars>>

(* The lookup resolves, lines 230-246: a short list is filled with random   *)
(* ids, which are fetched; a full one is sliced.  habitat is not read after *)
(* line 230.                                                                *)
HabitatLookupReturns ==
  \E i \in 1..Len(flows) :
    /\ flows[i].pc = "getPokemonByHabitat"
    /\ \E k \in 0..MaxSeed, seed \in 0..MaxSeed :
       \E pokemonList \in
            {getPokemonByHabitat(pokemon_species(flows[i].habitat), k)} :
         flows' = [flows EXCEPT ![i] =
            IF Len(pokemonList) < MAX_POKEMON
            THEN [@ EXCEPT
                    !.habitat = "none",
                    !.pool = pokemonList,
                    !.pokemonList = pokemonList,
                    !.random = randomIds(<<>>, MAX_POKEMON - Len(pokemonList),
                                         seed, 0),
                    !.pc = "randomFill"]
            ELSE [@ EXCEPT
                    !.habitat = "none",
                    !.pool = pokemonList,
                    !.pokemonList = SubSeq(pokemonList, 1, MAX_POKEMON),
                    !.pc = "preloadImages"]]
    /\ UNCHANGED <<userLocation, pokemonMarkers, loading, locationPermission,
                   refreshing, osRequests, alert, lastRun, detectVars,
                   cacheVars, catchVars, achievementVars>>

(* await Promise.all(... getPokemon(id)) of lines 240-242 resolves: the     *)
(* list is extended, line 243, and sliced, line 246.                        *)
RandomFillFetched ==
  \E i \in 1..Len(flows) :
    /\ flows[i].pc = "randomFill"
    /\ flows' = [flows EXCEPT
                   ![i].pokemonList =
                       SubSeq(flows[i].pokemonList \o flows[i].random,
                              1, MAX_POKEMON),
                   ![i].random = <<>>,
                   ![i].pc = "preloadImages"]
    /\ UNCHANGED <<userLocation, pokemonMarkers, loading, locationPermission,
                   refreshing, osRequests, alert, lastRun, detectVars,
                   cacheVars, catchVars, achievementVars>>

(* It rejects (pokeapi.ts lines 98-100): the inner catch of lines 247-256.  *)
RandomFillFails ==
  \E i \in 1..Len(flows) :
    /\ flows[i].pc = "randomFill"
    /\ \E seed \in 0..MaxSeed :
         flows' = [flows EXCEPT
                     ![i].pool = <<>>,
                     ![i].random = randomIds(<<>>, MAX_POKEMON, seed, 0),
                     ![i].apiFailed = TRUE,
                     ![i].pc = "fallback"]
    /\ UNCHANGED <<userLocation, pokemonMarkers, loading, locationPermission,
                   refreshing, osRequests, alert, lastRun, detectVars,
                   cacheVars, catchVars, achievementVars>>

(* await Promise.all(...) of lines 253-255, in the inner catch, resolves.   *)
FallbackFetched ==
  \E i \in 1..Len(flows) :
    /\ flows[i].pc = "fallback"
    /\ flows' = [flows EXCEPT ![i].pokemonList = flows[i].random,
                              ![i].random = <<>>,
                              ![i].pc = "preloadImages"]
    /\ UNCHANGED <<userLocation, pokemonMarkers, loading, locationPermission,
                   refreshing, osRequests, alert, lastRun, detectVars,
                   cacheVars, catchVars, achievementVars>>

(* The end of an activation: what lastRun keeps of it.                      *)
Finished(flow, result) ==
    [result |-> result, pool |-> flow.pool,
     lookupFailed |-> flow.lookupFailed, apiFailed |-> flow.apiFailed]

(* It rejects: the throw leaves the inner catch for the outer one, lines    *)
(* 332-334, which shows the Alert; then the finally of lines 335-338.       *)
FallbackFails ==
  \E i \in 1..Len(flows) :
    /\ flows[i].pc = "fallback"
    /\ alert' = "Error"
    /\ loading' = FALSE
    /\ refreshing' = FALSE
    /\ lastRun' = Finished(flows[i], "error")
    /\ flows' = remove(flows, i)
    /\ UNCHANGED <<userLocation, pokemonMarkers, locationPermission,
                   osRequests, detectVars,
                   cacheVars, catchVars, achievementVars>>

(* await preloadImages() of line 331 resolves (every image promise          *)
(* resolves, lines 303-310): setPokemonMarkers, line 318, one marker for    *)
(* each creature of the list (lines 260-277), then the finally.             *)
ImagesPreloaded ==
  \E i \in 1..Len(flows) :
    /\ flows[i].pc = "preloadImages"
    /\ pokemonMarkers' = flows[i].pokemonList
    /\ loading' = FALSE
    /\ refreshing' = FALSE
    /\ lastRun' = Finished(flows[i], "spawned")
    /\ flows' = remove(flows, i)
    /\ UNCHANGED <<userLocation, locationPermission, osRequests, alert,
                   detectVars,
                   cacheVars, catchVars, achievementVars>>

NextHunt ==
    \/ PermissionGranted
    \/ PermissionDenied
    \/ PressGrantPermission
    \/ LocationObtained
    \/ LocationError
    \/ HandleRefresh
    \/ HabitatDetected
    \/ HabitatLookupFails
    \/ HabitatLookupReturns
    \/ RandomFillFetched
    \/ RandomFillFails
    \/ FallbackFetched
    \/ FallbackFails
    \/ ImagesPreloaded

SpecHunt == Init /\ [][NextHunt]_vars

---------------------------------------------------------------------------
(* The response cache, src/unnamed/part_010 (cache.ts), over AsyncStorage.   *)
(* storage maps each key to its string value.  Date.now() is now.  Every    *)
(* AsyncStorage call is a request to the environment, which may serve it    *)
(* or make it throw; the catch blocks of cache.ts decide what follows.      *)

(* parseInt gives NaN on a string that does not start with a digit.  Every   *)
(* comparison with NaN is false: the times of the model are not negative.   *)
NaN == 0 - 1

(* The test `identifier ?` of lines 25 and 31 on the value of the argument,  *)
(* whose s field is the text `${identifier}` interpolates.                   *)
truthy(v) ==
    /\ v.k \notin {"undefined", "null"}
    /\ v.s # ""
    /\ ~(v.k = "number" /\ v.s = "0")

getCacheKey(resource, identifier) ==
    IF truthy(identifier)
    THEN CACHE_PREFIX \o resource \o "_" \o identifier.s
    ELSE CACHE_PREFIX \o resource

getExpiryKey(resource, identifier) ==
    IF truthy(identifier)
    THEN CACHE_EXPIRY_PREFIX \o resource \o "_" \o identifier.s
    ELSE CACHE_EXPIRY_PREFIX \o resource

startsWith(str, prefix) ==
    /\ Len(str) >= Len(prefix)
    /\ SubSeq(str, 1, Len(prefix)) = prefix

(* String.prototype.indexOf of a character, counted from 1; 0 when absent.   *)
indexOf(str, c) ==
    IF \E i \in 1..Len(str) : SubSeq(str, i, i) = c
    THEN CHOOSE i \in 1..Len(str) :
            /\ SubSeq(str, i, i) = c
            /\ \A j \in 1..(i - 1) : SubSeq(str, j, j) # c
    ELSE 0

(* Number.prototype.toString of a time in milliseconds.                      *)
RECURSIVE toString(_)
toString(n) ==
    IF n < 10
    THEN SubSeq("0123456789", n + 1, n + 1)
    ELSE toString(n \div 10)
            \o SubSeq("0123456789", (n % 10) + 1, (n % 10) + 1)

(* parseInt(str, 10): the value of the leading digits, NaN without them.     *)
RECURSIVE parseDigits(_, _, _)
parseDigits(str, i, acc) ==
    IF i > Len(str) \/ indexOf("0123456789", SubSeq(str, i, i)) = 0
    THEN acc
    ELSE parseDigits(str, i + 1,
                     acc * 10 + indexOf("0123456789", SubSeq(str, i, i)) - 1)
parseInt(str) ==
    IF Len(str) = 0 \/ indexOf("0123456789", SubSeq(str, 1, 1)) = 0
    THEN NaN
    ELSE parseDigits(str, 1, 0)

(* JSON.stringify({data, timestamp}) of line 178, for data that is a string, *)
(* and JSON.parse(cachedStr).data of line 76.                                *)
stringify(data, timestamp) ==
    "{\"data\":\"" \o data.s \o "\",\"timestamp\":" \o toString(timestamp)
        \o "}"
parseData(cachedStr) ==
    LET rest == SubSeq(cachedStr, Len("{\"data\":\"") + 1, Len(cachedStr))
    IN JsString(SubSeq(rest, 1, indexOf(rest, "\"") - 1))

(* AsyncStorage.setItem and AsyncStorage.multiRemove when they succeed.      *)
setItem(st, key, value) ==
    [x \in DOMAIN st \cup {key} |-> IF x = key THEN value ELSE st[x]]
multiRemove(st, keys) == [x \in DOMAIN st \ keys |-> st[x]]

(* isCacheValid, lines 38-53.  reads tells which getItem calls throw.        *)
isCacheValid_inclusive(st, resource, identifier, t, reads) ==
    LET expiryKey == getExpiryKey(resource, identifier)
    IN /\ reads # "expiryReadFails"
       /\ expiryKey \in DOMAIN st
       /\ st[expiryKey] # ""
       /\ t <= parseInt(st[expiryKey])

isCacheValid(st, resource, identifier, t, reads) ==
    LET expiryKey == getExpiryKey(resource, identifier)
    IN /\ reads # "expiryReadFails"
       /\ expiryKey \in DOMAIN st
       /\ st[expiryKey] # ""
       /\ t < parseInt(st[expiryKey])

(* getCachedData, lines 58-81.                                               *)
getCachedData(st, resource, identifier, t, reads) ==
    LET cacheKey == getCacheKey(resource, identifier)
    IN IF ~isCacheValid(st, resource, identifier, t, reads) THEN JsNull
       ELSE IF reads = "dataReadFails" THEN JsNull
       ELSE IF cacheKey \notin DOMAIN st \/ st[cacheKey] = "" THEN JsNull
       ELSE parseData(st[cacheKey])

(* The entries evictOldCacheEntries collects, lines 88-132: a key with the   *)
(* cache prefix whose derived expiry key is stored, can be read and holds a  *)
(* number.  unreadable are the keys whose getItem throws (line 126).         *)
entriesWithExpiry(st, unreadable) ==
    LET cacheKeys == {key \in DOMAIN st : startsWith(key, CACHE_PREFIX)}
        expiryKeys ==
            {key \in DOMAIN st : startsWith(key, CACHE_EXPIRY_PREFIX)}
        derived(cacheKey) ==
            LET keyWithoutPrefix ==
                    SubSeq(cacheKey, Len(CACHE_PREFIX) + 1, Len(cacheKey))
                i == indexOf(keyWithoutPrefix, "_")
            IN IF i = 0
               THEN getExpiryKey(keyWithoutPrefix, JsUndefined)
               ELSE getExpiryKey(SubSeq(keyWithoutPrefix, 1, i - 1),
                        JsString(SubSeq(keyWithoutPrefix, i + 1,
                                        Len(keyWithoutPrefix))))
        candidates ==
            {[cacheKey |-> key, expiryKey |-> derived(key)] :
                key \in cacheKeys}
    IN { [cacheKey |-> c.cacheKey, expiryKey |-> c.expiryKey,
          expiry |-> parseInt(st[c.expiryKey])] :
         c \in {d \in candidates :
                    /\ d.expiryKey \in expiryKeys
                    /\ d.expiryKey \notin unreadable
                    /\ st[d.expiryKey] # ""
                    /\ parseInt(st[d.expiryKey]) # NaN} }

(* Lines 135-142: toRemove = Math.max(1, Math.ceil(entries.length * 0.25)),  *)
(* the sort by expiry and the loop that takes the first toRemove entries.    *)
(*  Entries with equal expiry keep the order getAllKeys    *)
(* gave them, which the storage engine chooses: each selection the sort can *)
(* make is a member.                                                         *)
selected_unsorted(entries) ==
    LET quarter == (Cardinality(entries) + 3) \div 4
        toRemove == IF quarter > 1 THEN quarter ELSE 1
    IN {R \in SUBSET entries :
            \/ Cardinality(R) = toRemove
            \/ R = entries /\ Cardinality(R) < toRemove}
selected(entries) ==
    LET quarter == (Cardinality(entries) + 3) \div 4
        toRemove == IF quarter > 1 THEN quarter ELSE 1
    IN {R \in SUBSET entries :
            /\ \/ Cardinality(R) = toRemove
               \/ R = entries /\ Cardinality(R) < toRemove
            /\ \A e \in R, kept \in entries \ R : e.expiry <= kept.expiry}

(* What the environment does to one evictOldCacheEntries call.               *)
EvictionFaults(st) ==
    {[getAllKeys |-> "ok", unreadable |-> {}, multiRemove |-> "ok"],
     [getAllKeys |-> "throws", unreadable |-> {}, multiRemove |-> "ok"],
     [getAllKeys |-> "ok", unreadable |-> {}, multiRemove |-> "throws"]}
    \cup {[getAllKeys |-> "ok", unreadable |-> {key}, multiRemove |-> "ok"] :
            key \in {x \in DOMAIN st : startsWith(x, CACHE_EXPIRY_PREFIX)}}

(* evictOldCacheEntries, lines 86-161: the storages it can leave, with the   *)
(* keys it removed.  At most 2 * toRemove <= 50 keys: one multiRemove batch. *)
evictOldCacheEntries(st, faults) ==
    IF faults.getAllKeys = "throws"
    THEN {[storage |-> st, removed |-> {}]}
    ELSE { IF faults.multiRemove = "throws"
           THEN [storage |-> st, removed |-> {}]
           ELSE [storage |->
                    multiRemove(st, {e.cacheKey : e \in R}
                                        \cup {e.expiryKey : e \in R}),
                 removed |-> {e.cacheKey : e \in R}
                                \cup {e.expiryKey : e \in R}] :
           R \in selected(entriesWithExpiry(st, faults.unreadable)) }

(* The outcomes of the AsyncStorage writes of one setCachedData call, in the *)
(* order the call issues them: "ok", "full" (an error whose message names a  *)
(* full database, lines 209-212) or "error" (any other error).               *)
WriteOutcomes ==
    { <<"ok", "ok", "ok", "ok", "ok">>,
      <<"full", "ok", "ok", "ok", "ok">>,
      <<"full", "full", "ok", "ok", "ok">>,
      <<"full", "error", "ok", "full", "ok">>,
      <<"full", "full", "error", "ok", "ok">>,
      <<"error", "ok", "ok", "ok", "ok">>,
      <<"error", "ok", "error", "ok", "ok">>,
      <<"error", "error", "ok", "ok", "ok">>,
      <<"error", "full", "ok", "ok", "ok">>,
      <<"error", "full", "ok", "full", "ok">>,
      <<"error", "ok", "full", "ok", "ok">>,
      <<"error", "ok", "full", "ok", "error">> }

(* The pair of setItem calls of lines 229-230, 244-245 and 257-258: the      *)
(* second is not reached when the first throws.                              *)
setItems(st, cacheKey, jsonString, expiryKey, expiry, first, second) ==
    IF first # "ok"
    THEN [storage |-> st, wrote |-> "nothing", error |-> first, calls |-> 1]
    ELSE IF second # "ok"
    THEN [storage |-> setItem(st, cacheKey, jsonString),
          wrote |-> "data", error |-> second, calls |-> 2]
    ELSE [storage |-> setItem(setItem(st, cacheKey, jsonString),
                              expiryKey, expiry),
          wrote |-> "both", error |-> "none", calls |-> 2]

(* setCachedData, lines 166-293: the storages the call can leave, with what  *)
(* it wrote, the multiSet and setItem calls it issued and the eviction it   *)
(* ran.  Every catch block of the function returns, and the outer one       *)
(* (lines 281-292) only logs: no error leaves the call.                      *)
setCachedData_noSkip(st, resource, data, identifier, t, outcomes, faults) ==
    {[storage |-> setItems(st, getCacheKey(resource, identifier),
                           stringify(data, t),
                           getExpiryKey(resource, identifier),
                           toString(t + CACHE_DURATION), "ok", "ok").storage,
      wrote |-> "both", calls |-> 1, threw |-> FALSE,
      eviction |-> NoEviction]}

setCachedData(st, resource, data, identifier, t, outcomes, faults) ==
    LET cacheKey == getCacheKey(resource, identifier)
        expiryKey == getExpiryKey(resource, identifier)
        jsonString == stringify(data, t)
        expiry == toString(t + CACHE_DURATION)
        jsonLength == IF data.k = "large" THEN MAX_ITEM_SIZE + 1
                      ELSE Len(jsonString)
        Evicted(before, e) ==
            [ran |-> TRUE, before |-> before, removed |-> e.removed,
             faulty |-> faults # [getAllKeys |-> "ok", unreadable |-> {},
                                  multiRemove |-> "ok"],
             retried |-> TRUE]
        pair(s, first, second) ==
            setItems(s, cacheKey, jsonString, expiryKey, expiry,
                     first, second)
        Returns(s, wrote, calls, eviction) ==
            [storage |-> s, wrote |-> wrote, calls |-> calls,
             threw |-> FALSE, eviction |-> eviction]
    IN IF data.k \in {"null", "undefined", "circular"}
          \/ jsonLength > MAX_ITEM_SIZE
       THEN {Returns(st, "skipped", 0, NoEviction)}
       ELSE IF outcomes[1] = "ok"
       THEN {Returns(pair(st, "ok", "ok").storage, "both", 1, NoEviction)}
       ELSE IF outcomes[1] = "full"
       THEN { IF outcomes[2] = "ok"
              THEN Returns(pair(e.storage, "ok", "ok").storage, "both", 2,
                           Evicted(st, e))
              ELSE Returns(pair(e.storage, outcomes[3], outcomes[4]).storage,
                           pair(e.storage, outcomes[3], outcomes[4]).wrote,
                           2 + pair(e.storage, outcomes[3], outcomes[4]).calls,
                           Evicted(st, e)) :
              e \in evictOldCacheEntries(st, faults) }
       ELSE IF pair(st, outcomes[2], outcomes[3]).error = "full"
       THEN { Returns(pair(e.storage, outcomes[4], outcomes[5]).storage,
                      IF pair(e.storage, outcomes[4], outcomes[5]).wrote
                            = "nothing"
                      THEN pair(st, outcomes[2], outcomes[3]).wrote
                      ELSE pair(e.storage, outcomes[4], outcomes[5]).wrote,
                      1 + pair(st, outcomes[2], outcomes[3]).calls
                        + pair(e.storage, outcomes[4], outcomes[5]).calls,
                      Evicted(pair(st, outcomes[2], outcomes[3]).storage, e)) :
              e \in evictOldCacheEntries(
                        pair(st, outcomes[2], outcomes[3]).storage, faults) }
       ELSE {Returns(pair(st, outcomes[2], outcomes[3]).storage,
                     pair(st, outcomes[2], outcomes[3]).wrote,
                     1 + pair(st, outcomes[2], outcomes[3]).calls,
                     NoEviction)}

(* The storage an earlier session of the application left behind: the       *)
(* catch list of src/src/services/pokemonStorage.ts and the entries of      *)
(* earlier setCachedData calls, the first n of PreloadedEntries.             *)
PreloadedEntries ==
    << [resource |-> "pokemon", identifier |-> [JsNumber EXCEPT !.s = "1"],
        data |-> JsString("bulbasaur"), at |-> 0],
       [resource |-> "pokemon", identifier |-> [JsNumber EXCEPT !.s = "4"],
        data |-> JsString("charmander"), at |-> 0],
       [resource |-> "pokemon_list", identifier |-> JsString("0_20"),
        data |-> JsString("page"), at |-> 1],
       [resource |-> "types", identifier |-> JsUndefined,
        data |-> JsString("fire"), at |-> 2],
       [resource |-> "pokemon_by_type", identifier |-> JsString("fire"),
        data |-> JsString("vulpix"), at |-> 3],
       [resource |-> "generations", identifier |-> JsUndefined,
        data |-> JsString("kanto"), at |-> 4] >>
RECURSIVE Preloaded(_)
Preloaded(n) ==
    IF n = 0
    THEN setItem([x \in {} |-> ""], "@pokeexplore:caught_pokemon", "[]")
    ELSE setItems(Preloaded(n - 1),
                  getCacheKey(PreloadedEntries[n].resource,
                              PreloadedEntries[n].identifier),
                  stringify(PreloadedEntries[n].data, PreloadedEntries[n].at),
                  getExpiryKey(PreloadedEntries[n].resource,
                               PreloadedEntries[n].identifier),
                  toString(PreloadedEntries[n].at + CACHE_DURATION),
                  "ok", "ok").storage
(* With or without an entry whose expiry record was never written (lines    *)
(* 229-230, the second setItem threw).                                       *)
PreloadedStorages ==
    {Preloaded(n) : n \in 0..Len(PreloadedEntries)}
        \cup {setItem(Preloaded(Len(PreloadedEntries)),
                      getCacheKey("pokemon", [JsNumber EXCEPT !.s = "7"]),
                      stringify(JsString("squirtle"), 3))}

(* The arguments of the calls and the instants the clock is sampled at.      *)
CacheArgs ==
    { [resource |-> "pokemon", identifier |-> [JsNumber EXCEPT !.s = "25"]],
      [resource |-> "types", identifier |-> JsUndefined],
      [resource |-> "pokemon", identifier |-> [JsNumber EXCEPT !.s = "7"]] }
CacheData ==
    { JsString("pikachu"), JsNull, [JsNull EXCEPT !.k = "circular"],
      [JsNull EXCEPT !.k = "large"] }
Instants == {2 * CACHE_DURATION - 1, 2 * CACHE_DURATION}
MaxWrites == 1

(* Time passes.                                                              *)
Tick ==
    /\ \E t \in Instants : t > now /\ now' = t
    /\ lastRead' = NoRead
    /\ UNCHANGED <<storage, writes, lastWrite, lastFetch, detectVars, huntVars, catchVars,
                   achievementVars>>

(* A caller awaits getCachedData(resource, identifier).                      *)
GetCachedData ==
    /\ \E arg \in CacheArgs,
          reads \in {"ok", "expiryReadFails", "dataReadFails"} :
          lastRead' =
            [done |-> TRUE, resource |-> arg.resource,
             identifier |-> arg.identifier,
             result |-> getCachedData(storage, arg.resource, arg.identifier,
                                      now, reads),
             failed |-> reads # "ok"]
    /\ UNCHANGED <<storage, now, writes, lastWrite, lastFetch, detectVars, huntVars, catchVars,
                   achievementVars>>

(* A caller awaits setCachedData(resource, data, identifier).                *)
SetCachedData ==
    /\ writes < MaxWrites
    /\ \E arg \in CacheArgs, data \in CacheData :
       \E outcomes \in IF data.k = "string" THEN WriteOutcomes
                       ELSE {<<"ok", "ok", "ok", "ok", "ok">>} :
       \E faults \in IF "full" \in {outcomes[i] : i \in 1..3}
                     THEN EvictionFaults(storage)
                     ELSE {[getAllKeys |-> "ok", unreadable |-> {},
                            multiRemove |-> "ok"]} :
       \E r \in setCachedData(storage, arg.resource, data, arg.identifier,
                              now, outcomes, faults) :
          /\ storage' = r.storage
          /\ lastWrite' =
               [done |-> TRUE, resource |-> arg.resource,
                identifier |-> arg.identifier, data |-> data, at |-> now,
                wrote |-> r.wrote, calls |-> r.calls, threw |-> r.threw,
                eviction |-> r.eviction]
    /\ writes' = writes + 1
    /\ lastRead' = NoRead
    /\ UNCHANGED <<now, lastFetch, detectVars, huntVars, catchVars,
                   achievementVars>>

NextCache ==
    \/ Tick
    \/ GetCachedData
    \/ SetCachedData

(* The application starts on a device that holds an earlier session's       *)
(* storage.                                                                  *)
InitPreloaded ==
    /\ InitDetect
    /\ InitHunt
    /\ InitCatch
    /\ InitAchievements
    /\ InitProfile
    /\ storage \in PreloadedStorages
    /\ now = CACHE_DURATION
    /\ writes = 0
    /\ lastRead = NoRead
    /\ lastWrite = NoWrite
    /\ lastFetch = NoFetch

SpecCache == InitPreloaded /\ [][NextCache]_vars

---------------------------------------------------------------------------
(* The caching fetch functions of src/unnamed/part_009 (pokeapi.ts):        *)
(* getPokemon, getPokemonList, getTypes and getGenerations.  A response is  *)
(* what fetch and response.json() produce: fetch throws, the status is not  *)
(* OK, the body cannot be parsed, or the body arrives with its id.          *)

MaxCalls == 2

(* The body shared by the four functions: lines 120-159, 165-195, 201-231   *)
(* and 237-267.  reads[1] serves the lookup before the request, reads[2]    *)
(* the lookup of the !response.ok branch, reads[3] the lookup of the catch  *)
(* block.  needsId is the test `if (data.id)` of line 144, which only       *)
(* getPokemon makes; getPokemon stores under data.id (part_010 line 334).   *)
cacheFirst_alwaysFetch(st, resource, identifier, t, reads, response, needsId, outcomes, faults) ==
    { [storage |-> w.storage, network |-> 1, result |-> "fetched",
       value |-> response.data, wrote |-> w.wrote] :
      w \in setCachedData(st, resource, response.data, identifier, t,
                          outcomes, faults) }

cacheFirst(st, resource, identifier, t, reads, response, needsId, outcomes, faults) ==
    LET cached(i) == getCachedData(st, resource, identifier, t, reads[i])
        Returned(network, result, value) ==
            [storage |-> st, network |-> network, result |-> result,
             value |-> value, wrote |-> "nothing"]
        Caught ==
            IF truthy(cached(3))
            THEN {Returned(1, "cached after failure", cached(3))}
            ELSE {Returned(1, "threw", JsNull)}
    IN IF truthy(cached(1)) THEN {Returned(0, "cached", cached(1))}
       ELSE IF response.status \in {"threw", "unparsable"} THEN Caught
       ELSE IF response.status = "notok"
       THEN IF truthy(cached(2))
            THEN {Returned(1, "cached after failure", cached(2))}
            ELSE Caught
       ELSE IF needsId /\ ~truthy(response.id)
       THEN {Returned(1, "fetched", response.data)}
       ELSE { [storage |-> w.storage, network |-> 1, result |-> "fetched",
               value |-> response.data, wrote |-> w.wrote] :
              w \in setCachedData(st, resource, response.data,
                                  IF needsId THEN response.id ELSE identifier,
                                  t, outcomes, faults) }

(* What the device and the network do during one call: the getItem calls  *)
(* that throw, lookup by lookup, what the request produces, and how the     *)
(* writes of cachePokemon and its siblings go.  Only a request that         *)
(* succeeds reaches the writes.                                              *)
ApiEnvironments ==
    { [reads |-> reads, status |-> status, outcomes |-> outcomes,
       faults |-> [getAllKeys |-> "ok", unreadable |-> {},
                   multiRemove |-> "ok"]] :
      reads \in { <<"ok", "ok", "ok">>,
                  <<"expiryReadFails", "ok", "ok">>,
                  <<"dataReadFails", "dataReadFails", "ok">>,
                  <<"ok", "expiryReadFails", "dataReadFails">> },
      status \in {"threw", "notok", "unparsable"},
      outcomes \in {<<"ok", "ok", "ok", "ok", "ok">>} }
    \cup
    { [reads |-> reads, status |-> "ok", outcomes |-> outcomes,
       faults |-> [getAllKeys |-> "ok", unreadable |-> {},
                   multiRemove |-> "ok"]] :
      reads \in { <<"ok", "ok", "ok">>,
                  <<"expiryReadFails", "ok", "ok">>,
                  <<"dataReadFails", "dataReadFails", "ok">> },
      outcomes \in { <<"ok", "ok", "ok", "ok", "ok">>,
                     <<"full", "ok", "ok", "ok", "ok">>,
                     <<"error", "error", "ok", "ok", "ok">> } }

(* One call of each function.  The API answers a request for an id with    *)
(* the resource of that id.                                                  *)
GetPokemon ==
    /\ lastFetch.n < MaxCalls
    /\ \E id \in {[JsNumber EXCEPT !.s = "1"],
                  [JsNumber EXCEPT !.s = "25"]},
          env \in ApiEnvironments :
       \E r \in cacheFirst(storage, "pokemon", id, now, env.reads,
                           [status |-> env.status, id |-> id,
                            data |-> JsString("pikachu")],
                           TRUE, env.outcomes, env.faults) :
          /\ storage' = r.storage
          /\ lastFetch' =
               [done |-> TRUE, n |-> lastFetch.n + 1, fn |-> "getPokemon",
                resource |-> "pokemon", identifier |-> id,
                at |-> now, before |-> storage,
                readsFailed |-> env.reads # <<"ok", "ok", "ok">>,
                status |-> env.status, network |-> r.network,
                result |-> r.result, value |-> r.value, wrote |-> r.wrote]
    /\ lastRead' = NoRead
    /\ UNCHANGED <<now, writes, lastWrite, detectVars, huntVars, catchVars,
                   achievementVars>>

GetPokemonList ==
    /\ lastFetch.n < MaxCalls
    /\ \E env \in ApiEnvironments :
       \E r \in cacheFirst(storage, "pokemon_list", JsString("0_20"), now, env.reads,
                           [status |-> env.status, id |-> JsString("0_20"),
                            data |-> JsString("pikachu")],
                           FALSE, env.outcomes, env.faults) :
          /\ storage' = r.storage
          /\ lastFetch' =
               [done |-> TRUE, n |-> lastFetch.n + 1, fn |-> "getPokemonList",
                resource |-> "pokemon_list", identifier |-> JsString("0_20"),
                at |-> now, before |-> storage,
                readsFailed |-> env.reads # <<"ok", "ok", "ok">>,
                status |-> env.status, network |-> r.network,
                result |-> r.result, value |-> r.value, wrote |-> r.wrote]
    /\ lastRead' = NoRead
    /\ UNCHANGED <<now, writes, lastWrite, detectVars, huntVars, catchVars,
                   achievementVars>>

GetTypes ==
    /\ lastFetch.n < MaxCalls
    /\ \E env \in ApiEnvironments :
       \E r \in cacheFirst(storage, "types", JsUndefined, now, env.reads,
                           [status |-> env.status, id |-> JsUndefined,
                            data |-> JsString("pikachu")],
                           FALSE, env.outcomes, env.faults) :
          /\ storage' = r.storage
          /\ lastFetch' =
               [done |-> TRUE, n |-> lastFetch.n + 1, fn |-> "getTypes",
                resource |-> "types", identifier |-> JsUndefined,
                at |-> now, before |-> storage,
                readsFailed |-> env.reads # <<"ok", "ok", "ok">>,
                status |-> env.status, network |-> r.network,
                result |-> r.result, value |-> r.value, wrote |-> r.wrote]
    /\ lastRead' = NoRead
    /\ UNCHANGED <<now, writes, lastWrite, detectVars, huntVars, catchVars,
                   achievementVars>>

GetGenerations ==
    /\ lastFetch.n < MaxCalls
    /\ \E env \in ApiEnvironments :
       \E r \in cacheFirst(storage, "generations", JsUndefined, now, env.reads,
                           [status |-> env.status, id |-> JsUndefined,
                            data |-> JsString("pikachu")],
                           FALSE, env.outcomes, env.faults) :
          /\ storage' = r.storage
          /\ lastFetch' =
               [done |-> TRUE, n |-> lastFetch.n + 1, fn |-> "getGenerations",
                resource |-> "generations", identifier |-> JsUndefined,
                at |-> now, before |-> storage,
                readsFailed |-> env.reads # <<"ok", "ok", "ok">>,
                status |-> env.status, network |-> r.network,
                result |-> r.result, value |-> r.value, wrote |-> r.wrote]
    /\ lastRead' = NoRead
    /\ UNCHANGED <<now, writes, lastWrite, detectVars, huntVars, catchVars,
                   achievementVars>>

NextApi ==
    \/ Tick
    \/ GetPokemon
    \/ GetPokemonList
    \/ GetTypes
    \/ GetGenerations

(* The application starts with an empty cache or with the cache an earlier  *)
(* session filled.                                                           *)
InitApi ==
    /\ InitPreloaded
    /\ storage \in {Preloaded(0), Preloaded(Len(PreloadedEntries))}

SpecApi == InitApi /\ [][NextApi]_vars



---------------------------------------------------------------------------
(* The catch screen, src/src/screens/PokemonCatchScreen.tsx, for one         *)
(* encounter.  Every handler runs to its first await in one step; the       *)
(* completion of a throw animation and the end of the 1500 ms wait of       *)
(* handleCatch are steps of their own.  An Alert is modal: no button of the *)
(* screen can be pressed while one is shown.                                *)

MAX_ATTEMPTS == 5
MaxPending == 2

(* addCaughtPokemon, src/unnamed/part_011 lines 49-90: the record of the     *)
(* user and creature is updated when it exists and added otherwise.         *)
addCaughtPokemon(docs, method) ==
    IF \E i \in 1..Len(docs) : docs[i].pokemonId = "encountered"
    THEN [i \in 1..Len(docs) |->
            IF docs[i].pokemonId = "encountered"
            THEN [docs[i] EXCEPT !.catchMethod = method]
            ELSE docs[i]]
    ELSE Append(docs, [pokemonId |-> "encountered", catchMethod |-> method])

(* The AR Mode button, lines 484-491.                                        *)
PressARMode ==
    /\ screen = "PokemonCatch"
    /\ catchAlerts = <<>>
    /\ catchMethod # "ar"
    /\ ~catching
    /\ catchMethod' = "ar"
    /\ attempts' = 0
    /\ throwing' = FALSE
    /\ UNCHANGED <<screen, catching, thrown, waiting, catchAlerts,
                   caughtPokemon, detectVars, huntVars, cacheVars,
                   achievementVars,
                   storeVars>>

(* The close button of the AR view, lines 343-349.                           *)
CloseAR ==
    /\ screen = "PokemonCatch"
    /\ catchAlerts = <<>>
    /\ catchMethod = "ar"
    /\ catchMethod' = "null"
    /\ attempts' = 0
    /\ throwing' = FALSE
    /\ UNCHANGED <<screen, catching, thrown, waiting, catchAlerts,
                   caughtPokemon, detectVars, huntVars, cacheVars,
                   achievementVars,
                   storeVars>>

(* throwPokeball, lines 161-219: the guard, the two state updates and the    *)
(* start of the animation, whose callback keeps the attempts of this render. *)
ThrowPokeball_unguarded ==
    /\ screen = "PokemonCatch"
    /\ catchAlerts = <<>>
    /\ catchMethod = "ar"
    /\ Len(thrown) + Len(waiting) < MaxPending
    /\ throwing' = TRUE
    /\ attempts' = attempts + 1
    /\ thrown' = Append(thrown, attempts)
    /\ UNCHANGED <<screen, catching, catchMethod, waiting, catchAlerts,
                   caughtPokemon, detectVars, huntVars, cacheVars,
                   achievementVars,
                   storeVars>>

ThrowPokeball ==
    /\ screen = "PokemonCatch"
    /\ catchAlerts = <<>>
    /\ catchMethod = "ar"
    /\ Len(thrown) + Len(waiting) < MaxPending
    /\ IF throwing \/ attempts >= MAX_ATTEMPTS
       THEN UNCHANGED <<throwing, attempts, thrown>>
       ELSE /\ throwing' = TRUE
            /\ attempts' = attempts + 1
            /\ thrown' = Append(thrown, attempts)
    /\ UNCHANGED <<screen, catching, catchMethod, waiting, catchAlerts,
                   caughtPokemon, detectVars, huntVars, cacheVars,
                   achievementVars,
                   storeVars>>

(* The animation callback when Math.random() < CATCH_RATE, lines 220-225:    *)
(* handleCatch('ar') runs to its await (lines 127-131).                      *)
ThrowCaught ==
    /\ thrown # <<>>
    /\ thrown' = Tail(thrown)
    /\ catching' = TRUE
    /\ catchMethod' = "ar"
    /\ waiting' = Append(waiting, "ar")
    /\ UNCHANGED <<screen, attempts, throwing, catchAlerts, caughtPokemon,
                   detectVars, huntVars, cacheVars, achievementVars,
                   storeVars>>

(* The animation callback otherwise, lines 226-246.                          *)
ThrowMissed ==
    /\ thrown # <<>>
    /\ thrown' = Tail(thrown)
    /\ IF Head(thrown) + 1 >= MAX_ATTEMPTS
       THEN /\ catchAlerts' = Append(catchAlerts, "Pokemon Fled!")
            /\ UNCHANGED throwing
       ELSE /\ throwing' = FALSE
            /\ UNCHANGED catchAlerts
    /\ UNCHANGED <<screen, catching, catchMethod, attempts, waiting,
                   caughtPokemon, detectVars, huntVars, cacheVars,
                   achievementVars,
                   storeVars>>

(* The Catch button, lines 469-472: handleCatch('default') to its await.     *)
PressCatch ==
    /\ screen = "PokemonCatch"
    /\ catchAlerts = <<>>
    /\ catchMethod # "ar"
    /\ ~catching
    /\ Len(thrown) + Len(waiting) < MaxPending
    /\ catching' = TRUE
    /\ catchMethod' = "default"
    /\ waiting' = Append(waiting, "default")
    /\ UNCHANGED <<screen, attempts, throwing, thrown, catchAlerts,
                   caughtPokemon, detectVars, huntVars, cacheVars,
                   achievementVars,
                   storeVars>>

(* handleCatch after its wait, lines 133-158, when a user is signed in and   *)
(* addCaughtPokemon resolves.                                                *)
CatchSaved ==
    /\ waiting # <<>>
    /\ waiting' = Tail(waiting)
    /\ caughtPokemon' = addCaughtPokemon(caughtPokemon, Head(waiting))
    /\ catchAlerts' = Append(catchAlerts, "Pokemon Caught!")
    /\ catching' = FALSE
    /\ catchMethod' = "null"
    /\ UNCHANGED <<screen, attempts, throwing, thrown, detectVars, huntVars,
                   cacheVars, achievementVars,
                   storeVars>>

(* The same when no user is signed in or addCaughtPokemon rejects.           *)
CatchFails ==
    /\ waiting # <<>>
    /\ waiting' = Tail(waiting)
    /\ catchAlerts' = Append(catchAlerts, "Error")
    /\ catching' = FALSE
    /\ catchMethod' = "null"
    /\ UNCHANGED <<screen, attempts, throwing, thrown, caughtPokemon,
                   detectVars, huntVars, cacheVars, achievementVars,
                   storeVars>>

(* The OK button of the alert on top, lines 141-146 and 232-240.             *)
PressOK ==
    /\ catchAlerts # <<>>
    /\ catchAlerts' = Tail(catchAlerts)
    /\ screen' = IF Head(catchAlerts) = "Error" THEN screen ELSE "MainTabs"
    /\ IF Head(catchAlerts) = "Pokemon Fled!"
       THEN /\ catchMethod' = "null"
            /\ attempts' = 0
            /\ throwing' = FALSE
       ELSE UNCHANGED <<catchMethod, attempts, throwing>>
    /\ UNCHANGED <<catching, thrown, waiting, caughtPokemon, detectVars,
                   huntVars, cacheVars, achievementVars,
                   storeVars>>

NextCatch ==
    \/ PressARMode
    \/ CloseAR
    \/ ThrowPokeball
    \/ ThrowCaught
    \/ ThrowMissed
    \/ PressCatch
    \/ CatchSaved
    \/ CatchFails
    \/ PressOK

SpecCatch == Init /\ [][NextCatch]_vars

---------------------------------------------------------------------------
(* The caughtPokemon collection in Firestore, src/unnamed/part_011, for all *)
(* users.  Each call is a query and then a write, with an await between     *)
(* them; calls of one account (two catches in flight, two devices) and of   *)
(* different accounts run between each other's awaits.  A document is       *)
(* named by the call that added it.                                          *)

MaxStoreCalls == 3

(* The documents a query `where userId == ... where id == ...` returns.     *)
existing(docs, userId, pokemonId) ==
    {d \in docs : d.userId = userId /\ d.id = pokemonId}

(* addCaughtPokemon to the await of its query, lines 56-71.                  *)
AddCaughtPokemonQueried ==
    /\ storeCount < MaxStoreCalls
    /\ \E userId \in {"ash", "misty"}, pokemonId \in {1, 25},
          method \in {"default", "ar"} :
        storeCalls' = storeCalls \cup
            {[call |-> storeCount + 1, op |-> "add", userId |-> userId,
              id |-> pokemonId, caughtMethod |-> method,
              docs |-> {d.docId :
                            d \in existing(collection, userId, pokemonId)}]}
    /\ storeCount' = storeCount + 1
    /\ UNCHANGED <<collection, screen, catching, catchMethod, attempts,
                   throwing, thrown, waiting, catchAlerts, caughtPokemon,
                   detectVars, huntVars, cacheVars, achievementVars>>

(* addCaughtPokemon from line 73: add when the query found nothing, update  *)
(* existing.docs[0] otherwise.  update rejects when the document is gone.   *)
AddCaughtPokemonWrites ==
    /\ \E c \in {x \in storeCalls : x.op = "add"} :
        /\ storeCalls' = storeCalls \ {c}
        /\ IF c.docs = {}
           THEN collection' = collection \cup
                    {[docId |-> c.call, userId |-> c.userId, id |-> c.id,
                      caughtMethod |-> c.caughtMethod]}
           ELSE \E docId \in c.docs :
                    collection' =
                        { IF d.docId = docId
                          THEN [d EXCEPT !.userId = c.userId, !.id = c.id,
                                         !.caughtMethod = c.caughtMethod]
                          ELSE d : d \in collection }
    /\ UNCHANGED <<storeCount, screen, catching, catchMethod, attempts,
                   throwing, thrown, waiting, catchAlerts, caughtPokemon,
                   detectVars, huntVars, cacheVars, achievementVars>>

(* removeCaughtPokemon to the await of its query, lines 116-121: limit(1).  *)
RemoveCaughtPokemonQueried ==
    /\ storeCount < MaxStoreCalls
    /\ \E userId \in {"ash", "misty"}, pokemonId \in {1, 25} :
       \E docs \in IF existing(collection, userId, pokemonId) = {}
                   THEN {{}}
                   ELSE {{d.docId} :
                            d \in existing(collection, userId, pokemonId)} :
        storeCalls' = storeCalls \cup
            {[call |-> storeCount + 1, op |-> "remove", userId |-> userId,
              id |-> pokemonId, caughtMethod |-> "", docs |-> docs]}
    /\ storeCount' = storeCount + 1
    /\ UNCHANGED <<collection, screen, catching, catchMethod, attempts,
                   throwing, thrown, waiting, catchAlerts, caughtPokemon,
                   detectVars, huntVars, cacheVars, achievementVars>>

(* removeCaughtPokemon from line 123: the document found is deleted.        *)
RemoveCaughtPokemonDeletes ==
    /\ \E c \in {x \in storeCalls : x.op = "remove"} :
        /\ storeCalls' = storeCalls \ {c}
        /\ collection' = {d \in collection : d.docId \notin c.docs}
    /\ UNCHANGED <<storeCount, screen, catching, catchMethod, attempts,
                   throwing, thrown, waiting, catchAlerts, caughtPokemon,
                   detectVars, huntVars, cacheVars, achievementVars>>

NextStore ==
    \/ AddCaughtPokemonQueried
    \/ AddCaughtPokemonWrites
    \/ RemoveCaughtPokemonQueried
    \/ RemoveCaughtPokemonDeletes

SpecStore == Init /\ [][NextStore]_vars

---------------------------------------------------------------------------
(* The achievements of one user, src/unnamed/part_006 (achievements.ts).     *)
(* achievements is the Firestore collection, a bag of documents.  A query   *)
(* or a write may fail; fault tells which call of which loop iteration does. *)

CATCH_MILESTONES == <<1, 5, 10, 50, 100, 500>>
TYPE_MILESTONES == <<1, 5, 10, 50, 100, 500>>
MaxChecks == 2

getCatchAchievementName(milestone) ==
    CASE milestone = 1 -> "Catch I"
      [] milestone = 5 -> "Catch II"
      [] milestone = 10 -> "Catch III"
      [] milestone = 50 -> "Catch IV"
      [] milestone = 100 -> "Catch V"
      [] milestone = 500 -> "Catch VI"
      [] OTHER -> "Catch " \o toString(milestone)

getTypeAchievementName(type, milestone) ==
    LET i == indexOf("abcdefghijklmnopqrstuvwxyz", SubSeq(type, 1, 1))
        typeName ==
            (IF i = 0 THEN SubSeq(type, 1, 1)
             ELSE SubSeq("ABCDEFGHIJKLMNOPQRSTUVWXYZ", i, i))
                \o SubSeq(type, 2, Len(type))
    IN CASE milestone = 1 -> typeName \o " I"
         [] milestone = 5 -> typeName \o " II"
         [] milestone = 10 -> typeName \o " III"
         [] milestone = 50 -> typeName \o " IV"
         [] milestone = 100 -> typeName \o " V"
         [] milestone = 500 -> typeName \o " VI"
         [] OTHER -> typeName \o " " \o toString(milestone)

(* hasAchievement, lines 87-106: false when the query throws.                *)
hasAchievement(docs, achievementType, achievementName, query) ==
    /\ query = "ok"
    /\ \E d \in BagToSet(docs) :
        /\ d.achievementType = achievementType
        /\ d.achievementName = achievementName

(* unlockAchievement, lines 111-157.                                         *)
unlockAchievement(docs, achievementType, achievementName, milestone, fault) ==
    IF hasAchievement(docs, achievementType, achievementName, fault.recheck)
    THEN [docs |-> docs, threw |-> FALSE]
    ELSE IF fault.add = "throws"
    THEN [docs |-> docs, threw |-> TRUE]
    ELSE [docs |-> docs (+) SetToBag({[achievementType |-> achievementType,
                                       achievementName |-> achievementName,
                                       milestone |-> milestone]}),
          threw |-> FALSE]

NoFault == [at |-> 0, check |-> "ok", recheck |-> "ok", add |-> "ok"]
AchievementFaults ==
    {NoFault}
    \cup {[at |-> i, check |-> "throws", recheck |-> r, add |-> "ok"] :
            i \in 1..Len(CATCH_MILESTONES), r \in {"ok", "throws"}}
    \cup {[NoFault EXCEPT !.at = i, !.add = "throws"] :
            i \in 1..Len(CATCH_MILESTONES)}

(* The loop of checkCatchAchievements, lines 169-188, and of                 *)
(* checkTypeAchievements, lines 202-221, from iteration i on.                *)
RECURSIVE checkMilestones(_, _, _, _, _, _, _, _)
checkMilestones(docs, unlocked, i, milestones, names, type, count, fault) ==
    IF i > Len(milestones)
    THEN [docs |-> docs, unlocked |-> unlocked, threw |-> FALSE]
    ELSE IF /\ count >= milestones[i]
            /\ ~hasAchievement(docs, type, names[i],
                               IF fault.at = i THEN fault.check ELSE "ok")
    THEN LET u == unlockAchievement(docs, type, names[i],
                        milestones[i],
                        IF fault.at = i THEN fault ELSE NoFault)
         IN IF u.threw
            THEN [docs |-> u.docs, unlocked |-> unlocked, threw |-> TRUE]
            ELSE checkMilestones(u.docs, Append(unlocked, names[i]), i + 1,
                                 milestones, names, type, count,
                                 fault)
    ELSE checkMilestones(docs, unlocked, i + 1, milestones, names,
                         type, count, fault)

checkCatchAchievements(docs, totalCaught, fault) ==
    checkMilestones(docs, <<>>, 1, CATCH_MILESTONES,
        [i \in 1..Len(CATCH_MILESTONES) |->
            getCatchAchievementName(CATCH_MILESTONES[i])],
        "catch_milestone", totalCaught, fault)

checkTypeAchievements(docs, type, typeCount, fault) ==
    checkMilestones(docs, <<>>, 1, TYPE_MILESTONES,
        [i \in 1..Len(TYPE_MILESTONES) |->
            getTypeAchievementName(type, TYPE_MILESTONES[i])],
        "type_milestone", typeCount, fault)

(* A caller awaits checkCatchAchievements(userId, totalCaught, pokemonId).   *)
CheckCatchAchievements ==
    /\ checks < MaxChecks
    /\ \E totalCaught \in {0, 1, 7, 500}, fault \in AchievementFaults :
        \E r \in {checkCatchAchievements(achievements, totalCaught, fault)} :
            /\ achievements' = r.docs
            /\ lastCheck' =
                [done |-> TRUE, achievementType |-> "catch_milestone",
                 pokemonType |-> "", count |-> totalCaught,
                 before |-> achievements, unlocked |-> r.unlocked,
                 threw |-> r.threw, fault |-> fault]
    /\ checks' = checks + 1
    /\ UNCHANGED <<unlocking, profileVars, detectVars, huntVars, cacheVars,
                   catchVars>>

(* A caller awaits checkTypeAchievements(userId, type, typeCount).           *)
CheckTypeAchievements ==
    /\ checks < MaxChecks
    /\ \E type \in {"fire", "water"}, typeCount \in {0, 1, 7, 500},
          fault \in AchievementFaults :
        \E r \in {checkTypeAchievements(achievements, type, typeCount,
                                        fault)} :
            /\ achievements' = r.docs
            /\ lastCheck' =
                [done |-> TRUE, achievementType |-> "type_milestone",
                 pokemonType |-> type, count |-> typeCount,
                 before |-> achievements, unlocked |-> r.unlocked,
                 threw |-> r.threw, fault |-> fault]
    /\ checks' = checks + 1
    /\ UNCHANGED <<unlocking, profileVars, detectVars, huntVars, cacheVars,
                   catchVars>>

NextAchievements ==
    \/ CheckCatchAchievements
    \/ CheckTypeAchievements

SpecAchievements == Init /\ [][NextAchievements]_vars

(* unlockAchievement called on its own, await by await.  Calls of the same  *)
(* user, from two catches in flight or from two devices, run between each   *)
(* other's awaits.  First the query of line 121 returns: the call goes on   *)
(* when the achievement is not held or the query threw.                     *)
UnlockAchievementChecked ==
    /\ checks < MaxChecks
    /\ \E i \in 1..Len(CATCH_MILESTONES), query \in {"ok", "throws"} :
        /\ ~hasAchievement(achievements, "catch_milestone",
                           getCatchAchievementName(CATCH_MILESTONES[i]),
                           query)
        /\ unlocking' = unlocking (+)
              SetToBag({[achievementType |-> "catch_milestone",
                         achievementName |->
                            getCatchAchievementName(CATCH_MILESTONES[i]),
                         milestone |-> CATCH_MILESTONES[i]]})
    /\ checks' = checks + 1
    /\ UNCHANGED <<achievements, lastCheck, profileVars, detectVars, huntVars,
                   cacheVars, catchVars>>

(* Then the add of line 152 resolves, or rejects and the call throws.       *)
UnlockAchievementAdds ==
    /\ \E u \in BagToSet(unlocking), add \in {"ok", "throws"} :
        /\ unlocking' = unlocking (-) SetToBag({u})
        /\ achievements' = IF add = "ok" THEN achievements (+) SetToBag({u})
                           ELSE achievements
    /\ UNCHANGED <<checks, lastCheck, profileVars, detectVars, huntVars,
                   cacheVars, catchVars>>

NextUnlock ==
    \/ CheckCatchAchievements
    \/ CheckTypeAchievements
    \/ UnlockAchievementChecked
    \/ UnlockAchievementAdds

SpecUnlock == Init /\ [][NextUnlock]_vars

---------------------------------------------------------------------------
(* The profile of one user in the users collection,                         *)
(* src/src/services/pokemonStorage.ts lines 100-235 (userProfile.ts).       *)
(* profile is the document users/<userId>.  A Firestore call may reject;    *)
(* fault names the call of the function that does.                          *)

MaxProfileCalls == 3

(* email.split('@')[0], lines 132 and 224.                                  *)
emailPrefix(email) ==
    IF indexOf(email, "@") = 0 THEN email
    ELSE SubSeq(email, 1, indexOf(email, "@") - 1)

(* getUserProfile, lines 117-146: the document it leaves and what it        *)
(* returns.                                                                  *)
getUserProfile(doc, t, fault) ==
    IF fault = "getThrows" \/ ~doc.exists
    THEN [doc |-> doc, returned |-> JsNull]
    ELSE IF /\ doc.displayName # ""
            /\ doc.email # ""
            /\ doc.displayName = emailPrefix(doc.email)
    THEN IF fault = "writeThrows"
         THEN [doc |-> doc, returned |-> JsNull]
         ELSE [doc |-> [doc EXCEPT !.displayName = "Trainer",
                                   !.updatedAt = t],
               returned |-> [doc EXCEPT !.displayName = "Trainer"]]
    ELSE [doc |-> doc, returned |-> doc]

(* updateUserProfile, lines 151-196: the update or set of lines 165-176,    *)
(* and the set with merge of lines 181-187 when something threw.            *)
updateUserProfile(doc, email, displayName, t, fault) ==
    LET merged == [exists |-> TRUE, displayName |-> displayName,
                   email |-> email, createdAt |-> t, updatedAt |-> t]
    IN IF fault = "ok"
       THEN [doc |-> IF doc.exists
                     THEN [doc EXCEPT !.displayName = displayName,
                                      !.updatedAt = t]
                     ELSE merged,
             threw |-> FALSE]
       ELSE IF fault \in {"getThrows", "writeThrows"}
       THEN [doc |-> merged, threw |-> FALSE]
       ELSE [doc |-> doc, threw |-> TRUE]

(* initializeUserProfile, lines 201-235.  displayName is optional.          *)
initializeUserProfile_prefixDefault(doc, email, displayName, t, fault) ==
    [doc |-> IF doc.exists THEN doc
             ELSE [exists |-> TRUE, displayName |-> emailPrefix(email),
                   email |-> email, createdAt |-> t, updatedAt |-> t],
     threw |-> FALSE]

initializeUserProfile(doc, email, displayName, t, fault) ==
    IF fault = "getThrows" THEN [doc |-> doc, threw |-> TRUE]
    ELSE IF ~doc.exists
    THEN IF fault = "writeThrows" THEN [doc |-> doc, threw |-> TRUE]
         ELSE [doc |-> [exists |-> TRUE,
                        displayName |-> IF truthy(displayName)
                                        THEN displayName.s ELSE "Trainer",
                        email |-> email, createdAt |-> t, updatedAt |-> t],
               threw |-> FALSE]
    ELSE IF doc.displayName # "" /\ doc.displayName = emailPrefix(email)
    THEN IF fault = "writeThrows" THEN [doc |-> doc, threw |-> TRUE]
         ELSE [doc |-> [doc EXCEPT !.displayName = "Trainer",
                                   !.updatedAt = t],
               threw |-> FALSE]
    ELSE [doc |-> doc, threw |-> FALSE]

(* A caller awaits getUserProfile(userId).                                   *)
GetUserProfile ==
    /\ clock <= MaxProfileCalls
    /\ \E fault \in {"ok", "getThrows", "writeThrows"} :
       \E r \in {getUserProfile(profile, clock, fault)} :
        /\ profile' = r.doc
        /\ lastProfile' =
            [done |-> TRUE, fn |-> "getUserProfile", email |-> "",
             displayName |-> JsUndefined, before |-> profile,
             returned |-> r.returned, threw |-> FALSE,
             chosen |-> lastProfile.chosen]
    /\ clock' = clock + 1
    /\ UNCHANGED <<achievements, checks, lastCheck, unlocking, detectVars,
                   huntVars, cacheVars, catchVars>>

(* The Save button of the profile screen,                                    *)
(* src/src/screens/ProfileScreen.tsx line 102, with the trimmed name, which  *)
(* is not empty (lines 94-97).                                               *)
UpdateUserProfile ==
    /\ clock <= MaxProfileCalls
    /\ \E email \in {"ash@kanto.org", ""}, displayName \in {"ash", "Red"},
          fault \in {"ok", "getThrows", "writeThrows", "fallbackThrows"} :
       \E r \in {updateUserProfile(profile, email, displayName, clock,
                                   fault)} :
        /\ profile' = r.doc
        /\ lastProfile' =
            [done |-> TRUE, fn |-> "updateUserProfile", email |-> email,
             displayName |-> JsString(displayName), before |-> profile,
             returned |-> JsNull, threw |-> r.threw,
             chosen |-> IF r.threw THEN lastProfile.chosen
                        ELSE displayName]
    /\ clock' = clock + 1
    /\ UNCHANGED <<achievements, checks, lastCheck, unlocking, detectVars,
                   huntVars, cacheVars, catchVars>>

(* A caller awaits initializeUserProfile(userId, email, displayName).       *)
InitializeUserProfile ==
    /\ clock <= MaxProfileCalls
    /\ \E email \in {"ash@kanto.org", "red@kanto.org"},
          displayName \in {JsUndefined, JsString(""), JsString("ash"),
                           JsString("Red")},
          fault \in {"ok", "getThrows", "writeThrows"} :
       \E r \in {initializeUserProfile(profile, email, displayName, clock,
                                       fault)} :
        /\ profile' = r.doc
        /\ lastProfile' =
            [done |-> TRUE, fn |-> "initializeUserProfile", email |-> email,
             displayName |-> displayName, before |-> profile,
             returned |-> JsNull, threw |-> r.threw,
             chosen |-> lastProfile.chosen]
    /\ clock' = clock + 1
    /\ UNCHANGED <<achievements, checks, lastCheck, unlocking, detectVars,
                   huntVars, cacheVars, catchVars>>

NextProfile ==
    \/ GetUserProfile
    \/ UpdateUserProfile
    \/ InitializeUserProfile

(* The user is new, or has a profile an earlier version of the application  *)
(* created with the email prefix as the display name.                        *)
InitStoredProfile ==
    /\ InitDetect
    /\ InitHunt
    /\ InitCache
    /\ InitCatch
    /\ InitAchievements
    /\ profile \in {NoProfile,
                    [exists |-> TRUE, displayName |-> "ash",
                     email |-> "ash@kanto.org", createdAt |-> 0,
                     updatedAt |-> 0]}
    /\ clock = 1
    /\ lastProfile = NoProfileCall

SpecProfile == InitStoredProfile /\ [][NextProfile]_vars

---------------------------------------------------------------------------
(* Properties.                                                              *)

(* The call has settled.                                                    *)
Done == pc = "returned"
(* The call has settled and had reached line 89: combinedText exists.       *)
Analyzed == Done /\ combinedText # NoText

(* The rules as section 4.1 of the specification words them, on the         *)
(* combined text and the tag set of the settled call.                       *)
WaterRule ==
    \/ someIncluded(waterKeywords, combinedText)
    \/ /\ typesInclude(allTypes, "natural_feature")
       /\ \E k \in {"beach", "coast", "water", "lake", "river"} :
            includes(combinedText, k)
(* A result of the places query is tagged natural_feature.                  *)
PlacesFoundNaturalFeature ==
    /\ placesData.k = "object" /\ placesData.results = "array"
    /\ \E i \in 1..Len(placesData.items) :
        /\ placesData.items[i].k = "object"
        /\ placesData.items[i].types.k = "array"
        /\ typesInclude(placesData.items[i].types.a, "natural_feature")
(* The number of results the places query returned: none when it failed.    *)
PlacesResultCount ==
    IF placesData.k = "object" /\ placesData.results = "array"
    THEN Len(placesData.items) ELSE 0
MountainRule ==
    \/ someIncluded(mountainKeywords, combinedText)
    \/ /\ typesInclude(allTypes, "natural_feature")
       /\ \E k \in {"mountain", "hill", "peak", "mount"} : includes(combinedText, k)
    \/ PlacesFoundNaturalFeature /\ ~WaterRule
ForestRule ==
    \/ someIncluded(forestKeywords, combinedText)
    \/ typesInclude(allTypes, "park")
    \/ typesInclude(allTypes, "natural_feature") /\ includes(combinedText, "park")
UrbanRule ==
    /\ someIncluded(urbanKeywords, combinedText)
    /\ \/ typesInclude(allTypes, "locality")
       \/ typesInclude(allTypes, "administrative_area_level_1")
    /\ ~typesInclude(allTypes, "natural_feature")
    /\ ~typesInclude(allTypes, "park")
    /\ PlacesResultCount = 0

C2_NeverRejects ==
    /\ promise.state # "rejected"
    /\ pc = "geocodeJson" => ENABLED (GeocodeJsonThrows \/ GeocodeJsonParsed)
    /\ pc = "placesJson" => ENABLED (PlacesJsonThrows \/ PlacesJsonParsed)
    /\ Done => promise.state = "fulfilled" /\ promise.value \in DetectedHabitat
C2_Witness ==
    /\ Done
    /\ placesData.k = "object" /\ placesData.results = "array"
    /\ \E i \in 1..Len(placesData.items) : placesData.items[i].k = "null"
    /\ promise = Return("grassland", 172)

PlacesFailed(resp) == resp.status \in {"threw", "notok"}
EmptyPlaces == OkResponse(Body(<<>>))
ForestTrailBody ==
    Body(<<GeocodeResult(JsString("National Forest Park Trail"), Tags(<<"route">>))>>)
C4_PlacesFailureLikeEmpty ==
    /\ ( /\ Done
         /\ prev.settled.state # "pending"
         /\ prev.geo = geocodeResponse
         /\ \/ PlacesFailed(prev.places) /\ placesResponse = EmptyPlaces
            \/ PlacesFailed(placesResponse) /\ prev.places = EmptyPlaces )
       => promise.state = prev.settled.state /\ promise.value = prev.settled.value
    /\ ( Done /\ PlacesFailed(placesResponse) /\ geocodeData = ForestTrailBody )
       => promise.state = "fulfilled" /\ promise.value = "forest"
C4_Witness ==
    /\ Done
    /\ prev.geo = geocodeResponse
    /\ geocodeData = ForestTrailBody
    /\ placesResponse = FetchThrew
    /\ prev.places = EmptyPlaces
    /\ prev.settled.value = "forest"
    /\ promise.value = "forest"

(* C5: when the analysis is reached and the combined text contains a water  *)
(* keyword, the call returns waters-edge, whatever mountain, forest or      *)
(* urban keyword or tag is present as well.                                 *)
C5_WaterFirst ==
    Analyzed /\ someIncluded(waterKeywords, combinedText) =>
        promise = Return("waters-edge", 106)
C5_Witness ==
    /\ Analyzed
    /\ includes(combinedText, "beach")
    /\ includes(combinedText, "mountain")
    /\ promise.value = "waters-edge"

(* C6: when the analysis is reached, the waters-edge rule does not match    *)
(* and the combined text contains a mountain keyword, the call returns      *)
(* mountain even with forest keywords or the park tag present; the Mount    *)
(* Malindang example gives mountain.                                        *)
MalindangGeocode ==
    Body(<<GeocodeResult(JsString(MalindangAddress),
                         Tags(<<"natural_feature", "park">>))>>)
MalindangPlaces ==
    Body(<<Place(JsString("Mount Malindang"), Tags(<<"natural_feature">>))>>)
C6_MountainBeforeForest ==
    /\ ( Analyzed /\ ~WaterRule /\ someIncluded(mountainKeywords, combinedText) )
       => promise = Return("mountain", 124)
    /\ ( Done /\ geocodeData = MalindangGeocode /\ placesData = MalindangPlaces )
       => promise.state = "fulfilled" /\ promise.value = "mountain"
C6_Witness ==
    /\ Done
    /\ geocodeData = MalindangGeocode
    /\ placesData = MalindangPlaces
    /\ includes(combinedText, "mount")
    /\ includes(combinedText, "park")
    /\ typesInclude(allTypes, "park")
    /\ promise.value = "mountain"

(* C7: when the analysis is reached, a result of the places query is tagged *)
(* natural_feature and the waters-edge rule does not match, the call        *)
(* returns mountain, also when no mountain keyword occurs in the text.      *)
C7_NaturalFeatureFallback ==
    Analyzed /\ PlacesFoundNaturalFeature /\ ~WaterRule =>
        promise = Return("mountain", 124)
C7_Witness ==
    /\ Analyzed
    /\ placesData = Body(<<Place(JsString("Echo Point"), Tags(<<"natural_feature">>))>>)
    /\ ~someIncluded(mountainKeywords, combinedText)
    /\ someIncluded(urbanKeywords, combinedText)
    /\ promise.value = "mountain"

(* C8: a settled call returned urban if and only if the analysis was        *)
(* reached, none of the waters-edge, mountain and forest rules matched, the *)
(* text holds an urban keyword, the tags hold locality or                   *)
(* administrative_area_level_1 and neither natural_feature nor park, and    *)
(* the places query gave no result; a non-empty places result excludes      *)
(* urban, and the return statement of line 168 is never the one executed.   *)
C8_UrbanGating ==
    Done =>
        /\ promise.value = "urban" <=>
              (Analyzed /\ ~WaterRule /\ ~MountainRule /\ ~ForestRule /\ UrbanRule)
        /\ PlacesResultCount > 0 => promise.value # "urban"
        /\ promise.value = "urban" => promise.line = 156
        /\ promise.line # 168
C8_Witness ==
    /\ Done
    /\ promise.value = "urban"
    /\ includes(combinedText, "street")
    /\ typesInclude(allTypes, "locality")
    /\ placesResponse = EmptyPlaces

(* C9: when the analysis is reached and none of the waters-edge, mountain,  *)
(* forest and urban rules matches, the call returns grassland; so does an   *)
(* address without keyword tagged administrative_area_level_2 only, and an  *)
(* urban keyword without the locality or administrative_area_level_1 tag.   *)
C9_DefaultGrassland ==
    /\ ( Analyzed /\ ~WaterRule /\ ~MountainRule /\ ~ForestRule /\ ~UrbanRule )
       => promise = Return("grassland", 165)
    /\ ( /\ Analyzed /\ ~WaterRule /\ ~MountainRule /\ ~ForestRule
         /\ someIncluded(urbanKeywords, combinedText)
         /\ ~typesInclude(allTypes, "locality")
         /\ ~typesInclude(allTypes, "administrative_area_level_1") )
       => promise.value = "grassland"

C20_FallbackOnlyFromPlacesTag ==
    ( /\ Analyzed
      /\ promise.value = "mountain"
      /\ ~someIncluded(mountainKeywords, combinedText) )
    => PlacesFoundNaturalFeature

(* C12: at most one spawnPokemon activation, hence at most one              *)
(* detectHabitat call, is in flight at any time.                            *)
C12_SingleSpawnFlow ==
    Len(flows) <= 1

(* C13: a spawnPokemon run that ended with markers set them to exactly      *)
(* MAX_POKEMON creatures: the creatures of the habitat pool first, at most  *)
(* MAX_POKEMON of them and none when the habitat lookup failed, then        *)
(* distinct random ids of 1..1025 for the remainder.                        *)
C13_ExactlyTenSpawned ==
    lastRun.result = "spawned" =>
        /\ Len(pokemonMarkers) = MAX_POKEMON
        /\ Len(lastRun.pool) <= MAX_POKEMON
        /\ lastRun.lookupFailed => lastRun.pool = <<>>
        /\ SubSeq(pokemonMarkers, 1, Len(lastRun.pool)) = lastRun.pool
        /\ \A i \in 1..Len(lastRun.pool) : lastRun.pool[i] # 0
        /\ \A i \in (Len(lastRun.pool) + 1)..MAX_POKEMON :
              /\ pokemonMarkers[i] \in 1..1025
              /\ \A j \in (Len(lastRun.pool) + 1)..MAX_POKEMON :
                    pokemonMarkers[i] = pokemonMarkers[j] => i = j
C13_Witness ==
    /\ lastRun.result = "spawned"
    /\ Len(lastRun.pool) = 8
    /\ ~lastRun.apiFailed
    /\ Len(pokemonMarkers) = MAX_POKEMON
    /\ pokemonMarkers[9] = 1
    /\ \E i \in 1..8 : pokemonMarkers[i] = 1

(* C14: a spawnPokemon run in which a request to the creature-data API      *)
(* failed ended with creatures spawned and without the error Alert.         *)
C14_ApiFailureFallsBack ==
    lastRun.apiFailed => lastRun.result = "spawned"

C18_CheckReturnsNewlyUnlocked ==
    (lastCheck.done /\ ~lastCheck.threw) =>
        LET milestones ==
                IF lastCheck.achievementType = "catch_milestone"
                THEN CATCH_MILESTONES ELSE TYPE_MILESTONES
            nameOf(m) ==
                IF lastCheck.achievementType = "catch_milestone"
                THEN getCatchAchievementName(m)
                ELSE getTypeAchievementName(lastCheck.pokemonType, m)
            held(docs, m) ==
                \E d \in BagToSet(docs) :
                    /\ d.achievementType = lastCheck.achievementType
                    /\ d.achievementName = nameOf(m)
            reached ==
                {milestones[i] : i \in {j \in 1..Len(milestones) :
                                            milestones[j] <= lastCheck.count}}
            new == {nameOf(m) : m \in {r \in reached :
                                            ~held(lastCheck.before, r)}}
        IN /\ \A m \in reached : held(achievements, m)
           /\ \A d \in BagToSet(achievements) :
                CopiesIn(d, achievements) > CopiesIn(d, lastCheck.before)
                    => d.milestone <= lastCheck.count
           /\ {lastCheck.unlocked[i] : i \in 1..Len(lastCheck.unlocked)} = new
           /\ Len(lastCheck.unlocked) = Cardinality(new)

(* C19.  When the encounter is over and the catch has been saved, the user  *)
(* holds the achievement of the first catch milestone.                      *)
C19_CatchUnlocksAchievements ==
    ( /\ screen = "MainTabs"
      /\ thrown = <<>>
      /\ waiting = <<>>
      /\ catchAlerts = <<>>
      /\ caughtPokemon # <<>> )
    => hasAchievement(achievements, "catch_milestone",
                      getCatchAchievementName(CATCH_MILESTONES[1]), "ok")

(* C21: when the analysis is reached, neither the waters-edge rule nor the  *)
(* mountain rule matches and the combined tags contain park, the call       *)
(* returns forest, with or without a forest keyword in the text.            *)
C21_ParkTagGivesForest ==
    ( /\ Analyzed
      /\ ~WaterRule
      /\ ~MountainRule
      /\ typesInclude(allTypes, "park") )
    => promise.value = "forest"

(* C30: the markers of a spawn have pairwise distinct creature ids.         *)
C30_DistinctSpawn ==
    \A i, j \in 1..Len(pokemonMarkers) :
        i # j => pokemonMarkers[i] # pokemonMarkers[j]

(* C22: a handleCatch('ar') call is started only by the landing of a throw, *)
(* one per landing; a creature is saved only by a handleCatch call; once    *)
(* the fifth throw has failed and 'Pokemon Fled!' is shown, no AR catch is  *)
(* saved; acknowledging it resets attempts, throwing and catchMethod; and   *)
(* after a failed throw below the limit the guard of throwPokeball is open. *)
C22_ArCatchFollowsRoll ==
    /\ [][ ( /\ Len(waiting') > Len(waiting)
             /\ waiting'[Len(waiting')] = "ar" )
           => ( /\ thrown # <<>>
                /\ thrown' = Tail(thrown)
                /\ waiting' = Append(waiting, "ar") ) ]_vars
    /\ [][ caughtPokemon' # caughtPokemon
           => (waiting # <<>> /\ waiting' = Tail(waiting)) ]_vars
    /\ [][ ( /\ \E i \in 1..Len(catchAlerts) :
                    catchAlerts[i] = "Pokemon Fled!"
             /\ waiting # <<>>
             /\ Head(waiting) = "ar"
             /\ waiting' = Tail(waiting) )
           => catchAlerts' # Append(catchAlerts, "Pokemon Caught!") ]_vars
    /\ [][ ( /\ catchAlerts # <<>>
             /\ Head(catchAlerts) = "Pokemon Fled!"
             /\ catchAlerts' = Tail(catchAlerts) )
           => ( /\ attempts' = 0
                /\ ~throwing'
                /\ catchMethod' = "null" ) ]_vars
    /\ [][ ( /\ thrown # <<>>
             /\ thrown' = Tail(thrown)
             /\ waiting' = waiting
             /\ Head(thrown) + 1 < MAX_ATTEMPTS )
           => (~throwing' /\ attempts' < MAX_ATTEMPTS) ]_vars

(* C23: when the request of getPokemon (numeric id), getPokemonList,        *)
(* getTypes or getGenerations fails (the response is not OK or something    *)
(* throws), the call returns the value stored in the cache for the key,     *)
(* expired or not, and raises an error only when no value was ever stored   *)
(* for the key.                                                              *)
C23_FailureServesStoredValue ==
    ( /\ lastFetch.done
      /\ lastFetch.network = 1
      /\ lastFetch.status # "ok" )
    => LET cacheKey == getCacheKey(lastFetch.resource, lastFetch.identifier)
       IN IF cacheKey \in DOMAIN lastFetch.before
          THEN /\ lastFetch.result = "cached after failure"
               /\ lastFetch.value = parseData(lastFetch.before[cacheKey])
          ELSE lastFetch.result = "threw"

C25_SetNeverThrowsBoundedSkips ==
    /\ [](lastWrite.done =>
            /\ ~lastWrite.threw
            /\ lastWrite.calls \in 0..5
            /\ lastWrite.eviction.ran =>
                  /\ lastWrite.eviction.retried
                  /\ lastWrite.calls \in 2..5
            /\ ( \/ lastWrite.data.k \in {"null", "undefined"}
                 \/ lastWrite.data.k = "large" )
               => lastWrite.wrote = "skipped" /\ lastWrite.calls = 0)
    /\ [][( /\ writes' = writes + 1
            /\ \/ lastWrite'.data.k \in {"null", "undefined"}
               \/ lastWrite'.data.k = "large" )
           => storage' = storage]_vars

(* A call that went through every retry: multiSet failed, setItem met a     *)
(* full storage, the eviction ran and the retry failed again.               *)
C25_Witness ==
    /\ lastWrite.done
    /\ lastWrite.calls = 5
    /\ lastWrite.eviction.ran
    /\ lastWrite.wrote = "data"

(* C26: after any sequence of unlockAchievement, checkCatchAchievements and *)
(* checkTypeAchievements calls of a user, interleaved at their awaits or    *)
(* not, the achievements collection holds at most one record per            *)
(* achievement type and name.                                                *)
C26_OneRecordPerAchievement ==
    \A d, e \in BagToSet(achievements) :
        ( /\ d.achievementType = e.achievementType
          /\ d.achievementName = e.achievementName )
        => d = e /\ CopiesIn(d, achievements) = 1

(* C27: after any sequence of addCaughtPokemon and removeCaughtPokemon      *)
(* calls, interleaved at their awaits or not, the caughtPokemon collection  *)
(* holds at most one record per user and creature id, and a call of one     *)
(* user changes no record of another user.                                   *)
C27_OneRecordPerUserAndCreature ==
    /\ [](\A d, e \in collection :
            (d.userId = e.userId /\ d.id = e.id) => d = e)
    /\ [][\A userId \in {"ash", "misty"} :
            {d \in collection' : d.userId = userId}
                # {d \in collection : d.userId = userId}
            => \E c \in storeCalls \ storeCalls' : c.userId = userId]_vars

C29_ProfileRoundTrip ==
    lastProfile.chosen # "" =>
        /\ profile.exists
        /\ profile.displayName = lastProfile.chosen
        /\ lastProfile.fn = "getUserProfile" =>
              /\ lastProfile.returned # JsNull
              /\ lastProfile.returned.displayName = lastProfile.chosen

============================================================================
